---- MODULE Spec2Model ----
(***************************************************************************)
(* Verification model of the email verifier backend (src/backend):         *)
(*   - the batch job runner of app.verify (run), the cancel endpoint and   *)
(*     the durable job table of db.py,                                     *)
(*   - the stall monitor of job_monitor.py,                                *)
(*   - the SMTP concurrency control of app.check_email,                    *)
(*   - the retrying SMTP probe app._smtp_check_with_retry.                 *)
(*                                                                         *)
(* Time is measured in ticks.  A stored timestamp is represented by its    *)
(* age (ticks elapsed since it was written), saturating one past the       *)
(* threshold it is compared with, which is exact for the comparisons       *)
(* "last_heartbeat < now - timeout" and "now - last_warning < cooldown".   *)
(***************************************************************************)
EXTENDS Integers, Sequences, FiniteSets, TLC

\* ------------------------------------------------------------------------
\* Bounds and configuration values
\* ------------------------------------------------------------------------

\* Job identifiers (uuid4 values in the source, each used once).
JobIds == {"j1", "j2"}

\* The job ids submitted while the stall monitor and the clock run.
MonitoredJobs == {"j1"}

\* Largest number of data rows of an uploaded CSV (at least 1: an empty
\* CSV is rejected before a job is created).
MaxRows == 2

\* Config.MAX_CONCURRENT_JOBS (environment-configurable).
MAX_CONCURRENT_JOBS == 1

\* Config.JOB_HEARTBEAT_INTERVAL_ROWS (environment-configurable).
JOB_HEARTBEAT_INTERVAL_ROWS == 2

\* Config.JOB_STALL_TIMEOUT_MINUTES (environment-configurable), in ticks.
JOB_STALL_TIMEOUT == 2

\* The monitor's per-job cooldown (300 seconds in the source), in ticks.
WARNING_COOLDOWN == 1

\* TTL of the MX cache (Config.DNS_CACHE_TTL_MINUTES), in ticks.
MX_TTL == 1

\* TTL of the catch-all cache (ttl_minutes of CatchAllCache), in ticks.
CATCH_ALL_TTL == 2

\* Last tick of the clock.
MaxTime == 3

\* check_interval_seconds of the JobMonitor (60 in the source): passes of
\* the one-second sleep loop between two cycles.
CHECK_INTERVAL == 1

\* Largest number of errors the durable store raises to the monitor.
MaxFaults == 1

\* Largest number of Thread objects alive at once that is followed.
MaxThreads == 2

\* Largest configured Config.SMTP_RETRIES.
MaxRetries == 2

\* Config.SMTP_GLOBAL_WORKERS.
SMTP_GLOBAL_WORKERS == 2

\* Config.SMTP_PER_DOMAIN_LIMIT.
SMTP_PER_DOMAIN_LIMIT == 1

\* Threads calling check_email at the same time (runner threads of
\* different jobs).
Verifiers == {"v1", "v2", "v3"}

\* Domains of the addresses verified, as sequences of character codes:
\* "a.io", "A.IO" and "b.io".
Domains == {<<97, 46, 105, 111>>, <<65, 46, 73, 79>>, <<98, 46, 105, 111>>}

Terminal == {"completed", "cancelled", "failed"}

VARIABLES
    \* ---- verify(): one request per job id
    req,             \* "new" | "admitted" | "rejected" | "created"
    \* ---- in-memory dict `data` of app.py (guarded by data_lock)
    inData,          \* job_id in data
    cancel,          \* data[job_id]["cancel"]
    row,             \* data[job_id]["row"]
    total,           \* data[job_id]["total"] = len(reader)
    \* ---- table jobs of db.py
    dbStatus,        \* "absent" | "running" | "completed" | "cancelled" | "failed"
    last_heartbeat,  \* age of jobs.last_heartbeat, 0 .. JOB_STALL_TIMEOUT + 1
    \* ---- thread run() of verify()
    rpc,             \* position of the runner
    i,               \* loop index of `for i, row in enumerate(reader, start=1)`
    cancelledWhileActive, \* history: a cancel was recorded while run() was active
    \* ---- JobMonitor
    monPc,           \* "idle" | "iter"
    stalled,         \* jobs of the list read by get_stalled_jobs not yet visited
    warned,          \* keys of _last_warning_time
    last_warning,    \* age of _last_warning_time[job_id], 0 .. WARNING_COOLDOWN
    \* ---- one call of _smtp_check_with_retry
    SMTP_RETRIES,    \* Config.SMTP_RETRIES
    ppc,             \* "off" | "attempt" | "sleep" | "returned"
    attempt,         \* loop variable of `for attempt in range(SMTP_RETRIES + 1)`
    last_code,       \* local last_code
    last_detail,     \* local last_detail
    outcomes,        \* what the calls of _single_smtp_check returned, in order
    sleeps,          \* number of time.sleep(_jittered_backoff()) calls made
    result,          \* the returned (code, reason)
    free_mail,       \* the address's domain is in Config.FREE_EMAIL_PROVIDERS
    verdict,         \* what check_email returns for the probe's result
    \* ---- SMTP concurrency control of check_email
    smtp_global_semaphore, \* permits left in smtp_global_semaphore
    domain_semaphores,     \* dict: lowercased domain -> permits left
    vpc,             \* position of each verification in check_email
    vdomain,         \* local `domain` of each verification
    domain_sem,      \* local `domain_sem`: key of the semaphore obtained
    held,            \* semaphores each verification holds, in acquisition order
    vexit,           \* how each verification left the `with` blocks
    waited,          \* history: an acquire was reached with the counter at zero
    vattempt,        \* loop variable `attempt` of each verification's probe
    \* ---- DNSCache (mx_cache) and CatchAllCache
    now,             \* the clock read by time.time() / time.monotonic(), in ticks
    mx_cache,        \* DNSCache._cache: lowercased domain -> <<mx_records, timestamp>>
    ca_cache,        \* CatchAllCache._cache: lowercased domain -> <<is_catch_all, checked_at>>
    mx_sets,         \* history: per spelling, the last value set in the MX cache
    ca_sets,         \* history: per spelling, the last value set in the catch-all cache
    last_get,        \* the get made by the last operation and what it returned
    driven,          \* which cache object the calls of a behaviour go to
    \* ---- successive calls of check_email (real mode)
    cpc,             \* position in check_email: "idle" | "lookup" | "dns" | "smtp" | "rcpt"
    call,            \* the call in progress or, when idle, the call that returned last
    last_dns,        \* history: per spelling, the last DNS answer for the domain
    probed,          \* history: per spelling, when the domain was last probed for catch-all
    \* ---- one call of calculate_score_and_risks
    score_in,        \* the arguments: reason, status, free-mail domain or not
    score_out,       \* the returned (score, risk_factors)
    \* ---- one call of check_email_mock
    mock_email,      \* the address: regex match or not, domain, local part
    mock_verdict,    \* the returned (status, reason, score, risk_factors)
    \* ---- further columns of the durable jobs row, and its heartbeat writes
    summary_rows,    \* summary_valid + summary_risky + summary_invalid
    error_message,   \* error_message IS NOT NULL
    heartbeats,      \* history: update_job_heartbeat calls made by run()
    row_age,         \* history: ticks since run() last recorded a row
    results_for_db,  \* run()'s local list of row results, per job
    job_results,     \* table job_results: per job, the row_index of its rows in insertion order
    \* ---- job_state.py: one job in a JobStateManager, a worker and a client
    use_redis,       \* self._use_redis
    job_store,       \* the job's entry in Redis or in _memory_store
    upd_pc,          \* per caller: "idle" | "write" (between hget and hset)
    upd_job,         \* per caller: the job decoded from its hget
    wstep,           \* worker: "cancel?" | "processing" | "progress" |
                     \*         "summary" | "stopped"
    wi,              \* worker: index of the row in progress
    api_pc,          \* client: "idle" | "done" (set_cancel has returned)
    cancel_returned, \* what set_cancel returned
    deleted,         \* history: delete_job was called
    \* ---- job_monitor.py: the monitor thread of one JobMonitor
    TESTING,         \* Config.TESTING
    stop_event,      \* self._stop_event.is_set()
    thread,          \* self._thread: 0 for None, else the Thread
    tpc,             \* per Thread: "dead" | "test" | "cycle" | "sleep"
    slept,           \* per Thread: passes of `for _ in range(check_interval)`
    faults,          \* history: errors raised by the durable store so far
    count,           \* local count of check_stalled_jobs_once
    cycle_result,    \* what check_stalled_jobs_once returned last, -1 before
    stop_pc,         \* caller of stop(): "idle" | "join"
    last_call        \* outcome of the last start() or stop() call

jobVars == <<req, inData, cancel, row, total, dbStatus, last_heartbeat,
             rpc, i, cancelledWhileActive>>
monVars == <<monPc, stalled, warned, last_warning>>
probeVars == <<SMTP_RETRIES, ppc, attempt, last_code, last_detail,
               outcomes, sleeps, result, free_mail, verdict>>
smtpVars == <<smtp_global_semaphore, domain_semaphores, vpc, vdomain,
              domain_sem, held, vexit, waited, vattempt>>
cacheVars == <<now, mx_cache, ca_cache, mx_sets, ca_sets, last_get, driven>>
checkVars == <<cpc, call, last_dns, probed>>
scoreVars == <<score_in, score_out, mock_email, mock_verdict>>
storeVars == <<summary_rows, error_message, heartbeats, row_age,
               results_for_db, job_results>>
jsVars == <<use_redis, job_store, upd_pc, upd_job, wstep, wi, api_pc,
           cancel_returned, deleted>>
mtVars == <<TESTING, stop_event, thread, tpc, slept, faults, count,
            cycle_result, stop_pc, last_call>>
vars == <<jobVars, monVars, probeVars, smtpVars, cacheVars, checkVars,
          scoreVars, storeVars, jsVars, mtVars>>

\* ------------------------------------------------------------------------
\* db.py
\* ------------------------------------------------------------------------

\* db.save_job on an existing row with a "status" key: UPDATE jobs SET
\* status = ? WHERE id = ? -- no condition on the stored status.
save_job_status(st, j, s) == [st EXCEPT ![j] = s]

\* db.update_job_heartbeat: UPDATE jobs SET last_heartbeat = now WHERE id = ?
update_job_heartbeat(hb, j) == [hb EXCEPT ![j] = 0]

\* Mutant of get_stalled_jobs: the comparison with the cutoff reversed.
get_stalled_jobs_Reversed ==
    {j \in JobIds : dbStatus[j] = "running" /\ last_heartbeat[j] < JOB_STALL_TIMEOUT}

\* db.get_stalled_jobs: status = 'running' AND last_heartbeat < now - timeout
\* (last_heartbeat is never NULL: save_job initialises it on insert).
get_stalled_jobs ==
    {j \in JobIds : dbStatus[j] = "running" /\ last_heartbeat[j] > JOB_STALL_TIMEOUT}

\* db.save_job_results(job_id, results): nothing for an empty list;
\* otherwise DELETE FROM job_results WHERE job_id = ? and one INSERT per
\* result with its row_index, in list order, in one transaction.
save_job_results(jr, j, results) ==
    IF results = << >> THEN jr
    ELSE [jr EXCEPT ![j] = [k \in 1..Len(results) |-> results[k].row_index]]

\* db.count_running_jobs
count_running_jobs == Cardinality({j \in JobIds : dbStatus[j] = "running"})

\* ------------------------------------------------------------------------
\* app.py: admission, submission, cancel
\* ------------------------------------------------------------------------

Max(a, b) == IF a >= b THEN a ELSE b

\* Mutant of get_running_jobs_count: the durable store is not counted.
get_running_jobs_count_MemoryOnly ==
    Cardinality({j \in JobIds : inData[j] /\ row[j] < total[j] /\ ~cancel[j]})

\* progress = int(i / total * 100) < 100  iff  row < total
get_running_jobs_count ==
    Max(Cardinality({j \in JobIds : inData[j] /\ row[j] < total[j] /\ ~cancel[j]}),
        count_running_jobs)

\* verify(): the concurrency check made first.
VerifyAdmission(j) ==
    /\ req[j] = "new"
    /\ req' = [req EXCEPT ![j] =
                 IF get_running_jobs_count >= MAX_CONCURRENT_JOBS
                 THEN "rejected" ELSE "admitted"]
    /\ UNCHANGED <<inData, cancel, row, total, dbStatus, last_heartbeat,
                   rpc, i, cancelledWhileActive, monVars, probeVars, smtpVars,
                   cacheVars, checkVars, scoreVars, storeVars, jsVars,
                   mtVars>>

\* verify(): job creation.  data[job_id] is assigned inside the handler of
\* the debug-sink write, so the in-memory record exists only when that
\* write failed (mem = TRUE); db.save_job inserts the row with status
\* running and last_heartbeat = now; the thread run() is started.
VerifyCreate(j) ==
    /\ req[j] = "admitted"
    /\ \E n \in 1..MaxRows, mem \in BOOLEAN :
         /\ total' = [total EXCEPT ![j] = n]
         /\ inData' = [inData EXCEPT ![j] = mem]
    /\ req' = [req EXCEPT ![j] = "created"]
    /\ dbStatus' = save_job_status(dbStatus, j, "running")
    /\ last_heartbeat' = update_job_heartbeat(last_heartbeat, j)
    /\ rpc' = [rpc EXCEPT ![j] = "check"]
    /\ i' = [i EXCEPT ![j] = 1]
    /\ summary_rows' = [summary_rows EXCEPT ![j] = 0]
    /\ error_message' = [error_message EXCEPT ![j] = FALSE]
    /\ row_age' = [row_age EXCEPT ![j] = 0]
    /\ results_for_db' = [results_for_db EXCEPT ![j] = << >>]
    /\ UNCHANGED <<cancel, row, cancelledWhileActive, monVars, probeVars, smtpVars,
                   cacheVars, checkVars, scoreVars, heartbeats, job_results,
                   jsVars, mtVars>>

RunnerActive(j) == rpc[j] \notin {"idle", "done", "crashed"}

\* Mutant of progress_row: the in-memory record is never consulted.
progress_row_DbOnly(j) ==
    IF dbStatus[j] = "completed" THEN total[j] ELSE 0

\* progress(): the "row" of the response.  The in-memory record is used
\* when there is one; otherwise the durable job gives total_rows when its
\* status is completed and 0 when it is not (or when there is no such job).
progress_row(j) ==
    IF inData[j] THEN row[j]
    ELSE IF dbStatus[j] = "completed" THEN total[j] ELSE 0

\* cancel(): sets the flag when the job is in memory; the durable status is
\* left to run().
Cancel(j) ==
    /\ inData[j]
    /\ ~cancel[j]
    /\ cancel' = [cancel EXCEPT ![j] = TRUE]
    /\ cancelledWhileActive' =
         [cancelledWhileActive EXCEPT ![j] = RunnerActive(j)]
    /\ UNCHANGED <<req, inData, row, total, dbStatus, last_heartbeat,
                   rpc, i, monVars, probeVars, smtpVars, cacheVars,
                   checkVars, scoreVars, storeVars, jsVars, mtVars>>

\* ------------------------------------------------------------------------
\* app.py: run()
\* ------------------------------------------------------------------------

\* Top of the loop body, under data_lock: leave the loop when the job is
\* not in memory; on a cancel request write status cancelled and leave.
RunCheckCancel(j) ==
    /\ rpc[j] = "check"
    /\ IF ~inData[j]
       THEN /\ rpc' = [rpc EXCEPT ![j] = "finalize"]
            /\ UNCHANGED dbStatus
       ELSE IF cancel[j]
       THEN /\ dbStatus' = save_job_status(dbStatus, j, "cancelled")
            /\ rpc' = [rpc EXCEPT ![j] = "finalize"]
       ELSE /\ rpc' = [rpc EXCEPT ![j] = "verify"]
            /\ UNCHANGED dbStatus
    /\ UNCHANGED <<req, inData, cancel, row, total, last_heartbeat,
                   i, cancelledWhileActive, monVars, probeVars, smtpVars,
                   cacheVars, checkVars, scoreVars, storeVars, jsVars,
                   mtVars>>

\* Mutant of heartbeat_due: a heartbeat with every row.
heartbeat_due_EveryRow(n) == n >= 1

\* i % Config.JOB_HEARTBEAT_INTERVAL_ROWS == 0
heartbeat_due(n) == n % JOB_HEARTBEAT_INTERVAL_ROWS = 0

\* check_email(email) returns.
RunVerify(j) ==
    /\ rpc[j] = "verify"
    /\ rpc' = [rpc EXCEPT ![j] = "heartbeat"]
    /\ UNCHANGED <<req, inData, cancel, row, total, dbStatus, last_heartbeat,
                   i, cancelledWhileActive, monVars, probeVars, smtpVars,
                   cacheVars, checkVars, scoreVars, storeVars, jsVars,
                   mtVars>>

\* if i % JOB_HEARTBEAT_INTERVAL_ROWS == 0: db.update_job_heartbeat(job_id)
\* update_job_heartbeat has try/finally and no except: an error of the
\* store (stored = FALSE) leaves it, run() has no handler and the thread
\* dies.
RunHeartbeat(j) ==
    /\ rpc[j] = "heartbeat"
    /\ IF heartbeat_due(i[j])
       THEN \E stored \in BOOLEAN :
              IF stored
              THEN /\ last_heartbeat' = update_job_heartbeat(last_heartbeat, j)
                   /\ heartbeats' = [heartbeats EXCEPT ![j] = @ + 1]
                   /\ rpc' = [rpc EXCEPT ![j] = "record"]
              ELSE /\ rpc' = [rpc EXCEPT ![j] = "crashed"]
                   /\ UNCHANGED <<last_heartbeat, heartbeats>>
       ELSE /\ rpc' = [rpc EXCEPT ![j] = "record"]
            /\ UNCHANGED <<last_heartbeat, heartbeats>>
    /\ UNCHANGED <<req, inData, cancel, row, total, dbStatus,
                   i, cancelledWhileActive, monVars, probeVars, smtpVars,
                   cacheVars, checkVars, scoreVars, summary_rows, error_message,
                   row_age, results_for_db, job_results, jsVars, mtVars>>

\* Mutant of row_result: the row index counted from 1.
row_result_FromOne(n) == [row_index |-> n]

\* The dict appended to results_for_db for row i of enumerate(reader,
\* start=1): "row_index": i - 1 (the other keys are not followed).
row_result(n) == [row_index |-> n - 1]

\* results_for_db.append({...}); then, under data_lock:
\* data[job_id]["writer"].writerow(row), then
\* data[job_id].update(row = i); then the for loop advances or is
\* exhausted.  The writer's fieldnames are the keys of the first row plus
\* the result columns, so a later row with more fields than the header
\* (it carries the key None) makes writerow raise ValueError; run() has no
\* handler and the thread dies.
RunRecord(j) ==
    /\ rpc[j] = "record"
    /\ results_for_db' = [results_for_db EXCEPT ![j] = Append(@, row_result(i[j]))]
    /\ \E surplus \in {s \in BOOLEAN : s => i[j] > 1} :
         IF surplus
         THEN /\ rpc' = [rpc EXCEPT ![j] = "crashed"]
              /\ UNCHANGED <<row, i, row_age>>
         ELSE /\ row' = [row EXCEPT ![j] = i[j]]
              /\ row_age' = [row_age EXCEPT ![j] = 0]
              /\ IF i[j] < total[j]
                 THEN /\ i' = [i EXCEPT ![j] = i[j] + 1]
                      /\ rpc' = [rpc EXCEPT ![j] = "check"]
                 ELSE /\ rpc' = [rpc EXCEPT ![j] = "finalize"]
                      /\ UNCHANGED i
    /\ UNCHANGED <<req, inData, cancel, total, dbStatus, last_heartbeat,
                   cancelledWhileActive, monVars, probeVars, smtpVars,
                   cacheVars, checkVars, scoreVars, summary_rows,
                   error_message, heartbeats, job_results, jsVars,
                   mtVars>>

\* After the loop, under data_lock: data[job_id]["output"] raises KeyError
\* when the job is not in memory (the thread dies); otherwise
\* is_cancelled = data[job_id]["cancel"], and with is_cancelled set nothing
\* more is written.
RunFinalize(j) ==
    /\ rpc[j] = "finalize"
    /\ rpc' = [rpc EXCEPT ![j] =
                 IF ~inData[j] THEN "crashed"
                 ELSE IF cancel[j] THEN "done" ELSE "save_results"]
    /\ UNCHANGED <<req, inData, cancel, row, total, dbStatus, last_heartbeat,
                   i, cancelledWhileActive, monVars, probeVars, smtpVars,
                   cacheVars, checkVars, scoreVars, storeVars, jsVars,
                   mtVars>>

\* if not is_cancelled: db.save_job_results(job_id, results_for_db)
RunSaveResults(j) ==
    /\ rpc[j] = "save_results"
    /\ \E stored \in BOOLEAN :
         IF stored
         THEN /\ job_results' = save_job_results(job_results, j, results_for_db[j])
              /\ rpc' = [rpc EXCEPT ![j] = "save_completed"]
         ELSE /\ rpc' = [rpc EXCEPT ![j] = "crashed"]
              /\ UNCHANGED job_results
    /\ UNCHANGED <<req, inData, cancel, row, total, dbStatus, last_heartbeat,
                   i, cancelledWhileActive, monVars, probeVars, smtpVars,
                   cacheVars, checkVars, scoreVars, summary_rows,
                   error_message, heartbeats, row_age, results_for_db,
                   jsVars, mtVars>>

\* if not is_cancelled: db.save_job({... "status": "completed" ...})
RunSaveCompleted(j) ==
    /\ rpc[j] = "save_completed"
    /\ dbStatus' = save_job_status(dbStatus, j, "completed")
    /\ rpc' = [rpc EXCEPT ![j] = "done"]
    /\ summary_rows' = [summary_rows EXCEPT ![j] = row[j]]
    /\ UNCHANGED <<req, inData, cancel, row, total, last_heartbeat,
                   i, cancelledWhileActive, monVars, probeVars, smtpVars,
                   cacheVars, checkVars, scoreVars, error_message, heartbeats,
                   row_age, results_for_db, job_results, jsVars, mtVars>>

Runner(j) ==
    \/ RunCheckCancel(j)
    \/ RunVerify(j)
    \/ RunHeartbeat(j)
    \/ RunRecord(j)
    \/ RunFinalize(j)
    \/ RunSaveResults(j)
    \/ RunSaveCompleted(j)

\* ------------------------------------------------------------------------
\* job_monitor.py
\* ------------------------------------------------------------------------

\* check_stalled_jobs_once: stalled = db.get_stalled_jobs(...)
MonitorRead ==
    /\ monPc = "idle"
    /\ get_stalled_jobs # {}
    /\ stalled' = get_stalled_jobs
    /\ monPc' = "iter"
    /\ UNCHANGED <<jobVars, warned, last_warning, probeVars, smtpVars,
                   cacheVars, checkVars, scoreVars, storeVars, jsVars,
                   mtVars>>

\* One iteration of `for job in stalled`: skipped when the job was marked
\* less than the cooldown ago, otherwise db.save_job({status: failed, ...})
\* and _last_warning_time[job_id] = now.
MonitorMark(j) ==
    /\ monPc = "iter"
    /\ j \in stalled
    /\ IF j \in warned /\ last_warning[j] < WARNING_COOLDOWN
       THEN UNCHANGED <<dbStatus, error_message, warned, last_warning>>
       ELSE /\ dbStatus' = save_job_status(dbStatus, j, "failed")
            /\ error_message' = [error_message EXCEPT ![j] = TRUE]
            /\ warned' = warned \cup {j}
            /\ last_warning' = [last_warning EXCEPT ![j] = 0]
    /\ stalled' = stalled \ {j}
    /\ monPc' = IF stalled' = {} THEN "idle" ELSE "iter"
    /\ UNCHANGED <<req, inData, cancel, row, total, last_heartbeat,
                   rpc, i, cancelledWhileActive, probeVars, smtpVars,
                   cacheVars, checkVars, scoreVars, summary_rows, heartbeats,
                   row_age, results_for_db, job_results, jsVars, mtVars>>

\* ------------------------------------------------------------------------
\* Time
\* ------------------------------------------------------------------------

AgeUp(a, cap) == IF a < cap THEN a + 1 ELSE a

\* One tick of the clock: every stored timestamp grows one tick older.
Tick ==
    /\ last_heartbeat' =
         [j \in JobIds |->
            IF dbStatus[j] = "absent" THEN last_heartbeat[j]
            ELSE AgeUp(last_heartbeat[j], JOB_STALL_TIMEOUT + 1)]
    /\ last_warning' =
         [j \in JobIds |->
            IF j \notin warned THEN last_warning[j]
            ELSE AgeUp(last_warning[j], WARNING_COOLDOWN)]
    /\ <<last_heartbeat', last_warning'>> # <<last_heartbeat, last_warning>>
    /\ UNCHANGED <<req, inData, cancel, row, total, dbStatus,
                   rpc, i, cancelledWhileActive,
                   monPc, stalled, warned, probeVars, smtpVars, cacheVars,
                   checkVars, scoreVars, storeVars, jsVars, mtVars>>

\* The same tick with the history row_age followed: the time since the
\* last recorded row grows for every running job whose runner is active.
TickRows ==
    /\ last_heartbeat' =
         [j \in JobIds |->
            IF dbStatus[j] = "absent" THEN last_heartbeat[j]
            ELSE AgeUp(last_heartbeat[j], JOB_STALL_TIMEOUT + 1)]
    /\ last_warning' =
         [j \in JobIds |->
            IF j \notin warned THEN last_warning[j]
            ELSE AgeUp(last_warning[j], WARNING_COOLDOWN)]
    /\ row_age' =
         [j \in JobIds |->
            IF dbStatus[j] = "running" /\ RunnerActive(j)
            THEN AgeUp(row_age[j], JOB_STALL_TIMEOUT + 1)
            ELSE row_age[j]]
    /\ <<last_heartbeat', last_warning', row_age'>>
          # <<last_heartbeat, last_warning, row_age>>
    /\ UNCHANGED <<req, inData, cancel, row, total, dbStatus,
                   rpc, i, cancelledWhileActive,
                   monPc, stalled, warned, probeVars, smtpVars, cacheVars,
                   checkVars, scoreVars, summary_rows, error_message,
                   heartbeats, results_for_db, job_results, jsVars,
                   mtVars>>

\* ------------------------------------------------------------------------
\* job_monitor.py: start(), stop() and the monitor thread
\* ------------------------------------------------------------------------

ThreadIds == 1..MaxThreads

\* Thread.is_alive()
is_alive(t) == tpc[t] # "dead"

\* start(): self._thread and self._thread.is_alive()
already_running == thread # 0 /\ is_alive(thread)

\* Mutant of after_store_error: the error ends the thread.
after_store_error_Fatal == "dead"

\* Where the thread goes on after `except Exception: ... return 0` in
\* check_stalled_jobs_once: to the sleep loop of _monitor_loop.
after_store_error == "sleep"

\* start(): nothing in TESTING mode, nothing but a warning when the thread
\* is alive; otherwise clear the stop event, create the thread, start it.
Start ==
    /\ stop_pc = "idle"
    /\ IF TESTING
       THEN /\ last_call' = "start: disabled"
            /\ UNCHANGED <<stop_event, thread, tpc, slept>>
       ELSE IF already_running
       THEN /\ last_call' = "start: already running"
            /\ UNCHANGED <<stop_event, thread, tpc, slept>>
       ELSE /\ \E t \in ThreadIds :
                 /\ ~is_alive(t)
                 /\ \A u \in ThreadIds : u < t => is_alive(u)
                 /\ thread' = t
                 /\ tpc' = [tpc EXCEPT ![t] = "test"]
                 /\ slept' = [slept EXCEPT ![t] = 0]
            /\ stop_event' = FALSE
            /\ last_call' = "start: started"
    /\ UNCHANGED <<TESTING, faults, count, cycle_result, stop_pc, jobVars,
                   monVars, probeVars, smtpVars, cacheVars, checkVars,
                   scoreVars, storeVars, jsVars>>

\* stop(): return when self._thread is None; otherwise set the stop event
\* and call join(timeout).
StopCall ==
    /\ stop_pc = "idle"
    /\ IF thread = 0
       THEN /\ last_call' = "stop: no thread"
            /\ UNCHANGED <<stop_event, stop_pc>>
       ELSE /\ stop_event' = TRUE
            /\ stop_pc' = "join"
            /\ last_call' = "stop: joining"
    /\ UNCHANGED <<TESTING, thread, tpc, slept, faults, count, cycle_result,
                   jobVars, monVars, probeVars, smtpVars, cacheVars,
                   checkVars, scoreVars, storeVars, jsVars>>

\* join(timeout) returns, the thread having finished or the timeout having
\* passed, and stop() reports which.
StopJoin ==
    /\ stop_pc = "join"
    /\ last_call' = IF is_alive(thread) THEN "stop: timeout"
                    ELSE "stop: stopped"
    /\ stop_pc' = "idle"
    /\ UNCHANGED <<TESTING, stop_event, thread, tpc, slept, faults, count,
                   cycle_result, jobVars, monVars, probeVars, smtpVars,
                   cacheVars, checkVars, scoreVars, storeVars, jsVars>>

\* _monitor_loop: while not self._stop_event.is_set()
LoopTest(t) ==
    /\ tpc[t] = "test"
    /\ tpc' = [tpc EXCEPT ![t] = IF stop_event THEN "dead" ELSE "cycle"]
    /\ UNCHANGED <<TESTING, stop_event, thread, slept, faults, count,
                   cycle_result, stop_pc, last_call, jobVars, monVars,
                   probeVars, smtpVars, cacheVars, checkVars, scoreVars,
                   storeVars, jsVars>>

\* check_stalled_jobs_once is entered: stalled = db.get_stalled_jobs(...),
\* count = 0; with an empty list it returns 0.  An error of the store is
\* caught by `except Exception` and 0 is returned.
CycleRead(t) ==
    /\ tpc[t] = "cycle"
    /\ monPc = "idle"
    /\ \E ok \in {b \in BOOLEAN : ~b => faults < MaxFaults} :
         IF ok
         THEN /\ stalled' = get_stalled_jobs
              /\ count' = 0
              /\ IF get_stalled_jobs = {}
                 THEN /\ cycle_result' = 0
                      /\ tpc' = [tpc EXCEPT ![t] = "sleep"]
                      /\ UNCHANGED monPc
                 ELSE /\ monPc' = "iter"
                      /\ UNCHANGED <<cycle_result, tpc>>
              /\ UNCHANGED faults
         ELSE /\ faults' = faults + 1
              /\ cycle_result' = 0
              /\ tpc' = [tpc EXCEPT ![t] = after_store_error]
              /\ UNCHANGED <<stalled, count, monPc>>
    /\ UNCHANGED <<TESTING, stop_event, thread, slept, stop_pc, last_call,
                   warned, last_warning, jobVars, probeVars, smtpVars,
                   cacheVars, checkVars, scoreVars, storeVars, jsVars>>

\* One iteration of `for job in stalled` in the thread: skipped within
\* the cooldown; otherwise db.save_job({status: failed, ...}),
\* _last_warning_time[job_id] = now, count += 1.  After the last job
\* count is returned.  An error raised by save_job is caught by
\* `except Exception` and 0 is returned.
CycleMark(t, j) ==
    /\ tpc[t] = "cycle"
    /\ monPc = "iter"
    /\ j \in stalled
    /\ \E ok \in {b \in BOOLEAN : ~b => (faults < MaxFaults /\
                      ~(j \in warned /\ last_warning[j] < WARNING_COOLDOWN))} :
         IF ok
         THEN /\ IF j \in warned /\ last_warning[j] < WARNING_COOLDOWN
                 THEN UNCHANGED <<dbStatus, error_message, warned,
                                  last_warning, count>>
                 ELSE /\ dbStatus' = save_job_status(dbStatus, j, "failed")
                      /\ error_message' = [error_message EXCEPT ![j] = TRUE]
                      /\ warned' = warned \cup {j}
                      /\ last_warning' = [last_warning EXCEPT ![j] = 0]
                      /\ count' = count + 1
              /\ stalled' = stalled \ {j}
              /\ IF stalled' = {}
                 THEN /\ monPc' = "idle"
                      /\ cycle_result' = count'
                      /\ tpc' = [tpc EXCEPT ![t] = "sleep"]
                 ELSE UNCHANGED <<monPc, cycle_result, tpc>>
              /\ UNCHANGED faults
         ELSE /\ faults' = faults + 1
              /\ cycle_result' = 0
              /\ stalled' = {}
              /\ monPc' = "idle"
              /\ tpc' = [tpc EXCEPT ![t] = after_store_error]
              /\ UNCHANGED <<dbStatus, error_message, warned, last_warning,
                             count>>
    /\ UNCHANGED <<TESTING, stop_event, thread, slept, stop_pc, last_call,
                   req, inData, cancel, row, total, last_heartbeat, rpc, i,
                   cancelledWhileActive, probeVars, smtpVars, cacheVars,
                   checkVars, scoreVars, summary_rows, heartbeats, row_age,
                   results_for_db, job_results, jsVars>>

\* for _ in range(self.check_interval): leave when the stop event is set,
\* else time.sleep(1); after the last pass back to the loop test.
SleepStep(t) ==
    /\ tpc[t] = "sleep"
    /\ IF slept[t] < CHECK_INTERVAL /\ ~stop_event
       THEN /\ slept' = [slept EXCEPT ![t] = @ + 1]
            /\ UNCHANGED tpc
       ELSE /\ slept' = [slept EXCEPT ![t] = 0]
            /\ tpc' = [tpc EXCEPT ![t] = "test"]
    /\ UNCHANGED <<TESTING, stop_event, thread, faults, count, cycle_result,
                   stop_pc, last_call, jobVars, monVars, probeVars, smtpVars,
                   cacheVars, checkVars, scoreVars, storeVars, jsVars>>

MonitorThread(t) ==
    \/ LoopTest(t)
    \/ CycleRead(t)
    \/ \E j \in JobIds : CycleMark(t, j)
    \/ SleepStep(t)

\* No JobMonitor thread is followed.
MonitorThreadOff ==
    /\ TESTING = TRUE
    /\ stop_event = FALSE
    /\ thread = 0
    /\ tpc = [t \in ThreadIds |-> "dead"]
    /\ slept = [t \in ThreadIds |-> 0]
    /\ faults = 0
    /\ count = 0
    /\ cycle_result = -1
    /\ stop_pc = "idle"
    /\ last_call = "none"

\* JobMonitor.__init__: no thread, the stop event clear; Config.TESTING
\* comes from the environment.
InitMonitorThread ==
    /\ TESTING \in BOOLEAN
    /\ stop_event = FALSE
    /\ thread = 0
    /\ tpc = [t \in ThreadIds |-> "dead"]
    /\ slept = [t \in ThreadIds |-> 0]
    /\ faults = 0
    /\ count = 0
    /\ cycle_result = -1
    /\ stop_pc = "idle"
    /\ last_call = "none"

\* ------------------------------------------------------------------------
\* app.py: the retrying SMTP probe
\* ------------------------------------------------------------------------

\* The code of a failed attempt: _single_smtp_check returns (None, detail).
None == -1

\* Mutant of HardRejects: only "user unknown" is taken as final.
HardRejects_Only550 == {550}

HardRejects == {550, 551, 552, 553, 554}

TempFails == {421, 450, 451, 452}

\* What _single_smtp_check can return: (code, "success") with the RCPT
\* code, or (None, detail) for a timeout, a reset or refused connection, or
\* another OSError.
Outcomes ==
    [code : {250, 251, 421, 450, 451, 452} \cup (550..554),
     detail : {"success"}]
    \cup
    [code : {None},
     detail : {"timeout", "connection_reset", "connection_refused",
               "os_error_OSError"}]

\* Mutant of is_retryable: a failed connection is not retried.
is_retryable_CodesOnly(code) == code \in TempFails

\* is_retryable = code is None or code in (421, 450, 451, 452)
is_retryable(code) == code = None \/ code \in TempFails

\* Mutant of final_result: the "_after_retry" forms are used whatever the
\* retry count.
final_result_AlwaysAfterRetry(code, detail, retries) ==
    IF code = None
    THEN IF detail = "timeout" THEN <<None, "timeout_after_retry">>
         ELSE IF detail = "connection_refused" THEN <<None, "connection_refused">>
         ELSE IF detail = "connection_reset" THEN <<None, "connection_reset">>
         ELSE <<None, "connection_error_" \o detail>>
    ELSE IF code \in TempFails
    THEN <<code, "temp_fail_" \o ToString(code) \o "_after_retry">>
    ELSE <<code, "smtp_" \o ToString(code)>>

\* The return statements after the loop of _smtp_check_with_retry.
final_result(code, detail, retries) ==
    IF code = None
    THEN IF detail = "timeout"
         THEN <<None, IF retries > 0 THEN "timeout_after_retry" ELSE "smtp_timeout">>
         ELSE IF detail = "connection_refused" THEN <<None, "connection_refused">>
         ELSE IF detail = "connection_reset" THEN <<None, "connection_reset">>
         ELSE <<None, "connection_error_" \o detail>>
    ELSE IF code \in TempFails
    THEN <<code, "temp_fail_" \o ToString(code)
                  \o (IF retries > 0 THEN "_after_retry" ELSE "")>>
    ELSE <<code, "smtp_" \o ToString(code)>>

NoResult == <<None, "">>

\* str.startswith and the `in` test on strings.
StartsWith(s, p) == Len(s) >= Len(p) /\ SubSeq(s, 1, Len(p)) = p

Contains(s, p) ==
    \E k \in 1..(Len(s) - Len(p) + 1) : SubSeq(s, k, k + Len(p) - 1) = p

Min(a, b) == IF a <= b THEN a ELSE b

\* One `if cond: score -= delta; risk_factors.append(tag)` of
\* calculate_score_and_risks, on acc = <<score, risk_factors>>.
\* Mutant of Penalty: the deduction is made without its risk tag.
Penalty_NoTag(acc, cond, delta, tag) ==
    IF cond THEN <<acc[1] - delta, acc[2]>> ELSE acc

\* if <cond>: score -= delta; risk_factors.append(tag)
Penalty(acc, cond, delta, tag) ==
    IF cond THEN <<acc[1] - delta, Append(acc[2], tag)>> ELSE acc

\* Mutant of calculate_score_and_risks: the free-mail penalty is applied
\* before the hard-zero reasons return (and the other penalties are lost).
calculate_score_and_risks_FreeFirst(free, status, reason) ==
    LET base ==
          IF reason \in {"bad_syntax", "empty_email"}
          THEN <<0, <<"invalid_syntax">>>>
          ELSE IF reason \in {"no_mx", "no_mx_dns_timeout"}
          THEN <<0, <<"no_mail_server">>>>
          ELSE IF StartsWith(reason, "smtp_reject")
          THEN <<0, <<"mailbox_not_found">>>>
          ELSE IF reason = "disposable_domain"
          THEN <<0, <<"disposable_provider">>>>
          ELSE <<100, << >>>>
    IN IF free
       THEN <<Max(0, base[1] - 5), Append(base[2], "free_email_provider")>>
       ELSE base

\* calculate_score_and_risks(email, status, reason); free says whether the
\* lowercased domain of email is in Config.FREE_EMAIL_PROVIDERS.
calculate_score_and_risks(free, status, reason) ==
    IF reason \in {"bad_syntax", "empty_email"} THEN <<0, <<"invalid_syntax">>>>
    ELSE IF reason \in {"no_mx", "no_mx_dns_timeout"}
    THEN <<0, <<"no_mail_server">>>>
    ELSE IF StartsWith(reason, "smtp_reject") THEN <<0, <<"mailbox_not_found">>>>
    ELSE IF reason = "disposable_domain" THEN <<0, <<"disposable_provider">>>>
    ELSE
      LET a0 == <<100, << >>>>
          a1 == Penalty(a0, reason = "role_based", 25, "role_based_email")
          a2 == Penalty(a1, reason \in {"smtp_timeout", "timeout_after_retry"},
                        25, "smtp_unreachable")
          a3 == Penalty(a2, reason \in {"connection_refused", "connection_reset"},
                        30, "smtp_connection_failed")
          a4 == Penalty(a3, StartsWith(reason, "smtp_soft_fail")
                              \/ StartsWith(reason, "temp_fail_"),
                        25, "temporary_smtp_failure")
          a5 == Penalty(a4, /\ StartsWith(reason, "smtp_")
                            /\ reason \notin {"smtp_ok", "smtp_timeout"}
                            /\ ~Contains(reason, "soft_fail")
                            /\ ~Contains(reason, "reject"),
                        30, "smtp_error")
          a6 == Penalty(a5, reason = "domain_accepts_all", 15, "catch_all_domain")
          a7 == Penalty(a6, reason = "mock_risky", 40, "unverifiable_domain")
          a8 == Penalty(a7, free, 5, "free_email_provider")
      IN <<Max(0, Min(100, a8[1])), a8[2]>>

\* Mutant of check_email_result: a persisting temporary failure is
\* reported as invalid.
check_email_result_TempInvalid(free, code, reason) ==
    LET status == IF code = 250 THEN "valid"
                  ELSE IF code = None THEN "risky"
                  ELSE "invalid"
        sr == calculate_score_and_risks(free, status, reason)
    IN IF code \in HardRejects
       THEN <<"invalid", reason, 0, <<"mailbox_not_found">>>>
       ELSE <<status, reason, sr[1], sr[2]>>

\* check_email after the `with` blocks ("Process result"): the returned
\* (status, reason, score, risk_factors).
check_email_result(free, code, reason) ==
    LET status == IF code = 250 THEN "valid"
                  ELSE IF code = None THEN "risky"
                  ELSE IF code \in {421, 450, 451, 452} THEN "risky"
                  ELSE "invalid"
        sr == calculate_score_and_risks(free, status, reason)
    IN IF code \in {550, 551, 552, 553, 554}
       THEN <<"invalid", reason, 0, <<"mailbox_not_found">>>>
       ELSE <<status, reason, sr[1], sr[2]>>

NoVerdict == <<"", "", 0, << >>>>

\* One pass through the loop body: _single_smtp_check returns o.
ProbeAttempt ==
    /\ ppc = "attempt"
    /\ \E o \in Outcomes :
         /\ outcomes' = Append(outcomes, o)
         /\ IF o.code = 250
            THEN /\ result' = <<o.code, "smtp_ok">>
                 /\ ppc' = "returned"
                 /\ UNCHANGED <<last_code, last_detail>>
            ELSE IF o.code \in HardRejects
            THEN /\ result' = <<o.code, "smtp_reject_" \o ToString(o.code)>>
                 /\ ppc' = "returned"
                 /\ UNCHANGED <<last_code, last_detail>>
            ELSE /\ last_code' = o.code
                 /\ last_detail' = o.detail
                 /\ IF is_retryable(o.code) /\ attempt < SMTP_RETRIES
                    THEN /\ ppc' = "sleep"
                         /\ UNCHANGED result
                    ELSE /\ ppc' = "returned"
                         /\ result' = final_result(last_code', last_detail', SMTP_RETRIES)
    /\ UNCHANGED <<SMTP_RETRIES, attempt, sleeps, free_mail, verdict,
                   jobVars, monVars, smtpVars, cacheVars, checkVars,
                   scoreVars, storeVars, jsVars, mtVars>>

\* time.sleep(_jittered_backoff()); continue
ProbeSleep ==
    /\ ppc = "sleep"
    /\ sleeps' = sleeps + 1
    /\ attempt' = attempt + 1
    /\ ppc' = "attempt"
    /\ UNCHANGED <<SMTP_RETRIES, last_code, last_detail, outcomes, result,
                   free_mail, verdict, jobVars, monVars, smtpVars, cacheVars,
                   checkVars, scoreVars, storeVars, jsVars, mtVars>>

\* check_email maps the probe's (code, reason) to its return value.
ProbeProcessResult ==
    /\ ppc = "returned"
    /\ verdict' = check_email_result(free_mail, result[1], result[2])
    /\ ppc' = "done"
    /\ UNCHANGED <<SMTP_RETRIES, attempt, last_code, last_detail, outcomes,
                   sleeps, result, free_mail, jobVars, monVars, smtpVars,
                   cacheVars, checkVars, scoreVars, storeVars, jsVars,
                   mtVars>>

\* No probe is running.
ProbeOff ==
    /\ SMTP_RETRIES = 0
    /\ ppc = "off"
    /\ attempt = 0
    /\ last_code = None
    /\ last_detail = "unknown"
    /\ outcomes = << >>
    /\ sleeps = 0
    /\ result = NoResult
    /\ free_mail = FALSE
    /\ verdict = NoVerdict

\* Entry of _smtp_check_with_retry, for every configured retry count.
InitProbe ==
    /\ SMTP_RETRIES \in 0..MaxRetries
    /\ ppc = "attempt"
    /\ attempt = 0
    /\ last_code = None
    /\ last_detail = "unknown"
    /\ outcomes = << >>
    /\ sleeps = 0
    /\ result = NoResult
    /\ free_mail \in BOOLEAN
    /\ verdict = NoVerdict

\* ------------------------------------------------------------------------
\* app.py: SMTP concurrency control of check_email
\* ------------------------------------------------------------------------

\* str.lower() on a sequence of character codes.
lower(d) == [k \in DOMAIN d |-> IF d[k] \in 65..90 THEN d[k] + 32 ELSE d[k]]

\* Two domains are the same ignoring letter case.
FoldCase(c) == IF c >= 65 /\ c <= 90 THEN c + 32 ELSE c

SameDomain(a, b) ==
    /\ Len(a) = Len(b)
    /\ \A k \in 1..Len(a) : FoldCase(a[k]) = FoldCase(b[k])

\* Mutant of domain_key: the dict is keyed by the domain as written.
domain_key_Raw(d) == d

\* domain_lower = domain.lower(), the key into domain_semaphores.
domain_key(d) == lower(d)

\* threading.Semaphore.acquire(): blocks while the counter is zero.
sem_can_acquire(n) == n > 0

sem_acquire(n) == n - 1

\* Mutant of sem_release: leaving the `with` block gives nothing back.
sem_release_Lost(n) == n

\* Mutant of sem_release: leaving the `with` block releases twice.
sem_release_Twice(n) == n + 2

\* threading.Semaphore.release(), called when the `with` block is left.
sem_release(n) == n + 1

NoDomain == << >>

\* check_email up to `with smtp_global_semaphore:` -- the address is
\* either settled without SMTP (syntax, disposable, role, no MX) or the
\* verification goes on to the SMTP checks for its domain.
CheckEmailBegin(v) ==
    /\ vpc[v] = "idle"
    /\ \/ /\ vpc' = [vpc EXCEPT ![v] = "returned"]
          /\ vexit' = [vexit EXCEPT ![v] = "no_smtp"]
          /\ UNCHANGED <<vdomain, waited>>
       \/ /\ \E d \in Domains : vdomain' = [vdomain EXCEPT ![v] = d]
          /\ vpc' = [vpc EXCEPT ![v] = "acq_global"]
          /\ waited' = (waited \/ ~sem_can_acquire(smtp_global_semaphore))
          /\ UNCHANGED vexit
    /\ UNCHANGED <<smtp_global_semaphore, domain_semaphores, domain_sem,
                   held, vattempt, jobVars, monVars, probeVars, cacheVars, checkVars,
                   scoreVars, storeVars, jsVars, mtVars>>

\* with smtp_global_semaphore:
AcquireGlobal(v) ==
    /\ vpc[v] = "acq_global"
    /\ sem_can_acquire(smtp_global_semaphore)
    /\ smtp_global_semaphore' = sem_acquire(smtp_global_semaphore)
    /\ held' = [held EXCEPT ![v] = Append(@, "global")]
    /\ vpc' = [vpc EXCEPT ![v] = "get_sem"]
    /\ UNCHANGED <<domain_semaphores, vdomain, domain_sem, vexit, waited,
                   vattempt, jobVars, monVars, probeVars, cacheVars, checkVars,
                   scoreVars, storeVars, jsVars, mtVars>>

\* domain_sem = get_domain_semaphore(domain), under domain_semaphores_lock.
GetDomainSemaphore(v) ==
    /\ vpc[v] = "get_sem"
    /\ LET key == domain_key(vdomain[v]) IN
         /\ domain_semaphores' =
               IF key \notin DOMAIN domain_semaphores
               THEN (key :> SMTP_PER_DOMAIN_LIMIT) @@ domain_semaphores
               ELSE domain_semaphores
         /\ domain_sem' = [domain_sem EXCEPT ![v] = key]
         /\ waited' = (waited \/ ~sem_can_acquire(domain_semaphores'[key]))
    /\ vpc' = [vpc EXCEPT ![v] = "acq_domain"]
    /\ UNCHANGED <<smtp_global_semaphore, vdomain, held, vexit,
                   vattempt, jobVars, monVars, probeVars, cacheVars, checkVars,
                   scoreVars, storeVars, jsVars, mtVars>>

\* with domain_sem:
AcquireDomain(v) ==
    /\ vpc[v] = "acq_domain"
    /\ sem_can_acquire(domain_semaphores[domain_sem[v]])
    /\ domain_semaphores' =
          [domain_semaphores EXCEPT ![domain_sem[v]] = sem_acquire(@)]
    /\ held' = [held EXCEPT ![v] = Append(@, "domain")]
    /\ vpc' = [vpc EXCEPT ![v] = "catch_all"]
    /\ UNCHANGED <<smtp_global_semaphore, vdomain, domain_sem, vexit, waited,
                   vattempt, jobVars, monVars, probeVars, cacheVars, checkVars,
                   scoreVars, storeVars, jsVars, mtVars>>

\* if _smtp_check_catch_all(mx_record, domain): return "risky", ...
\* The session ends with True (early return), with False (go on to the
\* RCPT probe) or the block is left by an exception.
CatchAllSession(v) ==
    /\ vpc[v] = "catch_all"
    /\ \/ /\ vpc' = [vpc EXCEPT ![v] = "exit_domain"]
          /\ vexit' = [vexit EXCEPT ![v] = "catch_all"]
       \/ /\ vpc' = [vpc EXCEPT ![v] = "probe"]
          /\ UNCHANGED vexit
       \/ /\ vpc' = [vpc EXCEPT ![v] = "exit_domain"]
          /\ vexit' = [vexit EXCEPT ![v] = "exception"]
    /\ UNCHANGED <<smtp_global_semaphore, domain_semaphores, vdomain,
                   domain_sem, held, waited, vattempt, jobVars, monVars, probeVars,
                   cacheVars, checkVars, scoreVars, storeVars, jsVars,
                   mtVars>>

\* Mutant of backoff_held: the slots are given back for the sleep.
backoff_held_Released(h) == << >>

\* The slots held in time.sleep(_jittered_backoff()): the call is made
\* inside both `with` blocks of check_email, which release on exit only.
backoff_held(h) == h

\* code, reason = _smtp_check_with_retry(email, mx_record)
\* The probe returns a result or the block is left by an exception.
ProbeSession(v) ==
    /\ vpc[v] = "probe"
    /\ \E e \in {"result", "exception"} : vexit' = [vexit EXCEPT ![v] = e]
    /\ vpc' = [vpc EXCEPT ![v] = "exit_domain"]
    /\ vattempt' = [vattempt EXCEPT ![v] = 0]
    /\ UNCHANGED <<smtp_global_semaphore, domain_semaphores, vdomain,
                   domain_sem, held, waited, jobVars, monVars, probeVars,
                   cacheVars, checkVars, scoreVars, storeVars, jsVars,
                   mtVars>>

\* Inside _smtp_check_with_retry: an attempt (_single_smtp_check) failed
\* in a retryable way with attempts left, and the probe goes to sleep.
ProbeRetry(v) ==
    /\ vpc[v] = "probe"
    /\ vattempt[v] < MaxRetries
    /\ vattempt' = [vattempt EXCEPT ![v] = @ + 1]
    /\ held' = [held EXCEPT ![v] = backoff_held(@)]
    /\ vpc' = [vpc EXCEPT ![v] = "backoff"]
    /\ UNCHANGED <<smtp_global_semaphore, domain_semaphores, vdomain,
                   domain_sem, vexit, waited, jobVars, monVars, probeVars,
                   cacheVars, checkVars, scoreVars, storeVars, jsVars,
                   mtVars>>

\* time.sleep(_jittered_backoff()) returns; `continue` to the next attempt.
BackoffSleep(v) ==
    /\ vpc[v] = "backoff"
    /\ vpc' = [vpc EXCEPT ![v] = "probe"]
    /\ UNCHANGED <<smtp_global_semaphore, domain_semaphores, vdomain,
                   domain_sem, held, vexit, waited, vattempt, jobVars,
                   monVars, probeVars, cacheVars, checkVars, scoreVars,
                   storeVars, jsVars, mtVars>>

\* Leaving `with domain_sem:`.
ReleaseDomain(v) ==
    /\ vpc[v] = "exit_domain"
    /\ domain_semaphores' =
          [domain_semaphores EXCEPT ![domain_sem[v]] = sem_release(@)]
    /\ held' = [held EXCEPT ![v] = SelectSeq(@, LAMBDA h : h # "domain")]
    /\ vpc' = [vpc EXCEPT ![v] = "exit_global"]
    /\ UNCHANGED <<smtp_global_semaphore, vdomain, domain_sem, vexit, waited,
                   vattempt, jobVars, monVars, probeVars, cacheVars, checkVars,
                   scoreVars, storeVars, jsVars, mtVars>>

\* Leaving `with smtp_global_semaphore:`; check_email returns or raises, and
\* its locals are gone.
ReleaseGlobal(v) ==
    /\ vpc[v] = "exit_global"
    /\ smtp_global_semaphore' = sem_release(smtp_global_semaphore)
    /\ held' = [held EXCEPT ![v] = SelectSeq(@, LAMBDA h : h # "global")]
    /\ vpc' = [vpc EXCEPT ![v] = "returned"]
    /\ vdomain' = [vdomain EXCEPT ![v] = NoDomain]
    /\ domain_sem' = [domain_sem EXCEPT ![v] = NoDomain]
    /\ UNCHANGED <<domain_semaphores, vexit, waited,
                   vattempt, jobVars, monVars, probeVars, cacheVars, checkVars,
                   scoreVars, storeVars, jsVars, mtVars>>

CheckEmail(v) ==
    \/ CheckEmailBegin(v)
    \/ AcquireGlobal(v)
    \/ GetDomainSemaphore(v)
    \/ AcquireDomain(v)
    \/ CatchAllSession(v)
    \/ ProbeSession(v)
    \/ ReleaseDomain(v)
    \/ ReleaseGlobal(v)

\* check_email with the attempts and sleeps of the probe as steps.
CheckEmailRetrying(v) ==
    \/ CheckEmail(v)
    \/ ProbeRetry(v)
    \/ BackoffSleep(v)

InitSmtp ==
    /\ smtp_global_semaphore = SMTP_GLOBAL_WORKERS
    /\ domain_semaphores = << >>
    /\ vpc = [v \in Verifiers |-> "idle"]
    /\ vdomain = [v \in Verifiers |-> NoDomain]
    /\ domain_sem = [v \in Verifiers |-> NoDomain]
    /\ held = [v \in Verifiers |-> << >>]
    /\ vexit = [v \in Verifiers |-> "none"]
    /\ waited = FALSE
    /\ vattempt = [v \in Verifiers |-> 0]

\* ------------------------------------------------------------------------
\* dns_cache.py, catch_all_cache.py: the two TTL caches
\* ------------------------------------------------------------------------

\* Host lists a DNS answer can carry (never empty: an empty answer raises
\* NoAnswer).
MxValues == {<<"mx1">>, <<"mx1", "mx2">>}

\* Mutant of is_expired: an entry expires when its age reaches the TTL.
is_expired_AtTtl(t, stamp, ttl) == t - stamp >= ttl

\* time.time() - timestamp > self._ttl_seconds
is_expired(t, stamp, ttl) == t - stamp > ttl

\* del self._cache[key]
Remove(cache, key) == [k \in DOMAIN cache \ {key} |-> cache[k]]

\* self._cache[key] = (value, stamp)
Store(cache, key, value, stamp) == (key :> <<value, stamp>>) @@ cache

\* DNSCache.get_mx: <<returned, cache afterwards>>; returned is {} for None
\* and {mx_records} otherwise.
get_mx(cache, d, t) ==
    LET domain_lower == lower(d) IN
      IF domain_lower \notin DOMAIN cache THEN <<{}, cache>>
      ELSE IF is_expired(t, cache[domain_lower][2], MX_TTL)
      THEN <<{}, Remove(cache, domain_lower)>>
      ELSE <<{cache[domain_lower][1]}, cache>>

\* DNSCache.set_mx
set_mx(cache, d, mx_records, t) == Store(cache, lower(d), mx_records, t)

\* Mutant of set_negative: a negative answer is not stored.
set_negative_Dropped(cache, d, t) == cache

\* DNSCache.set_negative
set_negative(cache, d, t) == Store(cache, lower(d), << >>, t)

\* CatchAllCache.get: <<returned, cache afterwards>>; returned is {} for
\* None and {is_catch_all} otherwise.
ca_get(cache, d, t) ==
    LET domain_lower == lower(d) IN
      IF domain_lower \notin DOMAIN cache THEN <<{}, cache>>
      ELSE IF is_expired(t, cache[domain_lower][2], CATCH_ALL_TTL)
      THEN <<{}, Remove(cache, domain_lower)>>
      ELSE <<{cache[domain_lower][1]}, cache>>

\* CatchAllCache.set
ca_set(cache, d, is_catch_all, t) == Store(cache, lower(d), is_catch_all, t)

\* Mutant of expired_domains: an entry counts as expired when its age
\* reaches the TTL.
expired_domains_AtTtl(cache, t) ==
    {x \in DOMAIN cache : t - cache[x][2] >= CATCH_ALL_TTL}

\* CatchAllCache.clear_expired: the list expired_domains
expired_domains(cache, t) ==
    {x \in DOMAIN cache : is_expired(t, cache[x][2], CATCH_ALL_TTL)}

\* CatchAllCache.clear_expired: the cache after `del self._cache[domain]`
\* for every domain of expired_domains
clear_expired(cache, t) ==
    [k \in DOMAIN cache \ expired_domains(cache, t) |-> cache[k]]

\* CatchAllCache.size, DNSCache.size
size(cache) == Cardinality(DOMAIN cache)

\* DNSCache.get_stats
get_stats(cache, t) ==
    [cache_size |-> Cardinality(DOMAIN cache),
     expired_count |->
         Cardinality({x \in DOMAIN cache : is_expired(t, cache[x][2], MX_TTL)})]

NoGet == [cache |-> "none", domain |-> NoDomain, ret |-> {}]

\* History of a set(d, value) at time t: every spelling equal to d ignoring
\* letter case now has <<value, t>> as its last set.
NoteSet(sets, d, value, t) ==
    [x \in Domains |-> IF SameDomain(x, d) THEN {<<value, t>>} ELSE sets[x]]

NoSets == [x \in Domains |-> {}]

MxSet(d, recs) ==
    /\ driven = "mx"
    /\ mx_cache' = set_mx(mx_cache, d, recs, now)
    /\ mx_sets' = NoteSet(mx_sets, d, recs, now)
    /\ last_get' = NoGet
    /\ UNCHANGED <<now, driven, ca_cache, ca_sets, jobVars, monVars, probeVars,
                   smtpVars, checkVars, scoreVars, storeVars, jsVars, mtVars>>

MxSetNegative(d) ==
    /\ driven = "mx"
    /\ mx_cache' = set_negative(mx_cache, d, now)
    /\ mx_sets' = NoteSet(mx_sets, d, << >>, now)
    /\ last_get' = NoGet
    /\ UNCHANGED <<now, driven, ca_cache, ca_sets, jobVars, monVars, probeVars,
                   smtpVars, checkVars, scoreVars, storeVars, jsVars, mtVars>>

MxGet(d) ==
    /\ driven = "mx"
    /\ mx_cache' = get_mx(mx_cache, d, now)[2]
    /\ last_get' = [cache |-> "mx", domain |-> d,
                    ret |-> get_mx(mx_cache, d, now)[1]]
    /\ UNCHANGED <<now, driven, ca_cache, mx_sets, ca_sets, jobVars, monVars,
                   probeVars, smtpVars, checkVars, scoreVars, storeVars,
                   jsVars, mtVars>>

\* DNSCache.clear
MxClear ==
    /\ driven = "mx"
    /\ mx_cache # << >>
    /\ mx_cache' = << >>
    /\ mx_sets' = NoSets
    /\ last_get' = NoGet
    /\ UNCHANGED <<now, driven, ca_cache, ca_sets, jobVars, monVars, probeVars,
                   smtpVars, checkVars, scoreVars, storeVars, jsVars, mtVars>>

CaSet(d, b) ==
    /\ driven = "ca"
    /\ ca_cache' = ca_set(ca_cache, d, b, now)
    /\ ca_sets' = NoteSet(ca_sets, d, b, now)
    /\ last_get' = NoGet
    /\ UNCHANGED <<now, driven, mx_cache, mx_sets, jobVars, monVars, probeVars,
                   smtpVars, checkVars, scoreVars, storeVars, jsVars, mtVars>>

CaGet(d) ==
    /\ driven = "ca"
    /\ ca_cache' = ca_get(ca_cache, d, now)[2]
    /\ last_get' = [cache |-> "ca", domain |-> d,
                    ret |-> ca_get(ca_cache, d, now)[1]]
    /\ UNCHANGED <<now, driven, mx_cache, mx_sets, ca_sets, jobVars, monVars,
                   probeVars, smtpVars, checkVars, scoreVars, storeVars,
                   jsVars, mtVars>>

\* CatchAllCache.clear_expired returns the number of entries removed.
CaClearExpired ==
    /\ driven = "ca"
    /\ ca_cache # << >>
    /\ ca_cache' = clear_expired(ca_cache, now)
    /\ last_get' = [cache |-> "ca.clear_expired", domain |-> NoDomain,
                    ret |-> {Cardinality(expired_domains(ca_cache, now))}]
    /\ UNCHANGED <<now, driven, mx_cache, mx_sets, ca_sets, jobVars, monVars,
                   probeVars, smtpVars, checkVars, scoreVars, storeVars,
                   jsVars, mtVars>>

\* CatchAllCache.clear
CaClear ==
    /\ driven = "ca"
    /\ ca_cache # << >>
    /\ ca_cache' = << >>
    /\ ca_sets' = NoSets
    /\ last_get' = NoGet
    /\ UNCHANGED <<now, driven, mx_cache, mx_sets, jobVars, monVars, probeVars,
                   smtpVars, checkVars, scoreVars, storeVars, jsVars, mtVars>>

\* CatchAllCache.size
CaSize ==
    /\ driven = "ca"
    /\ last_get' = [cache |-> "ca.size", domain |-> NoDomain,
                    ret |-> {size(ca_cache)}]
    /\ UNCHANGED <<now, driven, mx_cache, ca_cache, mx_sets, ca_sets, jobVars,
                   monVars, probeVars, smtpVars, checkVars, scoreVars,
                   storeVars, jsVars, mtVars>>

\* DNSCache.get_stats
MxStats ==
    /\ driven = "mx"
    /\ last_get' = [cache |-> "mx.get_stats", domain |-> NoDomain,
                    ret |-> {get_stats(mx_cache, now)}]
    /\ UNCHANGED <<now, driven, mx_cache, ca_cache, mx_sets, ca_sets, jobVars,
                   monVars, probeVars, smtpVars, checkVars, scoreVars,
                   storeVars, jsVars, mtVars>>

\* The clock advances.
ClockTick ==
    /\ now < MaxTime
    /\ now' = now + 1
    /\ last_get' = NoGet
    /\ UNCHANGED <<driven, mx_cache, ca_cache, mx_sets, ca_sets, jobVars, monVars,
                   probeVars, smtpVars, checkVars, scoreVars, storeVars,
                   jsVars, mtVars>>

InitCache ==
    /\ now = 0
    /\ mx_cache = << >>
    /\ ca_cache = << >>
    /\ mx_sets = NoSets
    /\ ca_sets = NoSets
    /\ last_get = NoGet
    /\ driven = "mx"

\* ------------------------------------------------------------------------
\* app.py: check_email in real mode, one call after another
\* ------------------------------------------------------------------------

\* Config.FREE_EMAIL_PROVIDERS, here "aol.com" and "msn.com".
FREE_EMAIL_PROVIDERS ==
    {<<97, 111, 108, 46, 99, 111, 109>>, <<109, 115, 110, 46, 99, 111, 109>>}

\* DISPOSABLE_DOMAINS: mailinator.com, 10minutemail.com, guerrillamail.com
DISPOSABLE_DOMAINS ==
    {<<109, 97, 105, 108, 105, 110, 97, 116, 111, 114, 46, 99, 111, 109>>,
     <<49, 48, 109, 105, 110, 117, 116, 101, 109, 97, 105, 108, 46, 99, 111, 109>>,
     <<103, 117, 101, 114, 114, 105, 108, 108, 97, 109, 97, 105, 108, 46, 99, 111, 109>>}

\* ROLE_BASED_PREFIXES: info, support, admin, sales, contact
ROLE_BASED_PREFIXES ==
    {<<105, 110, 102, 111>>,
     <<115, 117, 112, 112, 111, 114, 116>>,
     <<97, 100, 109, 105, 110>>,
     <<115, 97, 108, 101, 115>>,
     <<99, 111, 110, 116, 97, 99, 116>>}

\* Domains of the addresses passed to check_email one after another: the
\* two spellings of "a.io", and "Mailinator.com".
CheckDomains == {d \in Domains : SameDomain(d, <<97, 46, 105, 111>>)}
AddressDomains == CheckDomains \cup {<<77, 97, 105, 108, 105, 110, 97, 116, 111, 114, 46, 99, 111, 109>>}

\* Their local parts: "info", "Sales" and "bob".
Locals == {<<105, 110, 102, 111>>, <<83, 97, 108, 101, 115>>, <<98, 111, 98>>}

\* Mutant of pre_check: the role-based test made before the disposable one.
pre_check_RoleFirst(syntax_ok, domain, local) ==
    IF ~syntax_ok THEN "bad_syntax"
    ELSE IF lower(local) \in ROLE_BASED_PREFIXES THEN "role"
    ELSE IF lower(domain) \in DISPOSABLE_DOMAINS THEN "disposable"
    ELSE "ok"

\* The checks of check_email made before the MX lookup, in their order:
\* EMAIL_REGEX.match(email) (syntax_ok is its outcome), domain.lower() in
\* DISPOSABLE_DOMAINS, local.lower() in ROLE_BASED_PREFIXES.
pre_check(syntax_ok, domain, local) ==
    IF ~syntax_ok THEN "bad_syntax"
    ELSE IF lower(domain) \in DISPOSABLE_DOMAINS THEN "disposable"
    ELSE IF lower(local) \in ROLE_BASED_PREFIXES THEN "role"
    ELSE "ok"

\* What resolver.resolve(domain, "MX") does.
DnsAnswers == {"records", "nxdomain", "noanswer", "timeout", "error"}

\* RCPT codes the catch-all session can end with; None stands for every
\* exception.
CatchAllReplies == {250, 251, 550, None}

\* Results of _smtp_check_with_retry used here.
ProbeResults ==
    {<<250, "smtp_ok">>, <<550, "smtp_reject_550">>,
     <<None, "timeout_after_retry">>}

\* Mutant of smtp_check_catch_all: every 2xx counts as accepted.
smtp_check_catch_all_Any2xx(code) == code \in {250, 251}

\* _smtp_check_catch_all: `return code == 250`, False on any exception.
smtp_check_catch_all(code) == code = 250

\* Mutant of resolve_store: a resolver timeout is cached as a negative
\* result.
resolve_store_TimeoutCached(cache, d, answer, recs, t) ==
    IF answer = "records" THEN set_mx(cache, d, recs, t)
    ELSE IF answer \in {"nxdomain", "noanswer", "timeout"}
    THEN set_negative(cache, d, t)
    ELSE cache

\* What the try/except around resolver.resolve writes to mx_cache.
resolve_store(cache, d, answer, recs, t) ==
    IF answer = "records" THEN set_mx(cache, d, recs, t)
    ELSE IF answer \in {"nxdomain", "noanswer"} THEN set_negative(cache, d, t)
    ELSE cache

NoCall ==
    [domain |-> NoDomain, local |-> << >>, syntax_ok |-> FALSE,
     kind |-> "", neg_known |-> FALSE,
     prev_dns |-> "none", ca_known |-> FALSE, dns |-> "none",
     ca_probe |-> FALSE, ca_code |-> None, rcpt |-> FALSE,
     verdict |-> NoVerdict]

\* History of an event at domain d: every spelling equal to d ignoring
\* letter case gets the value.
NoteDomain(f, d, value) ==
    [x \in Domains |-> IF SameDomain(x, d) THEN value ELSE f[x]]

\* The value of a given age or less last set for a spelling, if any.
FreshSet(sets, d, t, ttl) == {e[1] : e \in {x \in sets[d] : t - x[2] <= ttl}}

\* check_email returns v.
Return(c, v) ==
    /\ call' = [c EXCEPT !.verdict = v]
    /\ cpc' = "idle"

\* check_email(email) up to the MX lookup: syntax, disposable domain and
\* role-based local part are settled without looking at the caches.
CheckBegin(d, l, syntax_ok) ==
    /\ cpc = "idle"
    /\ LET kind == pre_check(syntax_ok, d, l)
           c == [NoCall EXCEPT !.domain = d, !.local = l,
                               !.syntax_ok = syntax_ok, !.kind = kind]
           free == lower(d) \in FREE_EMAIL_PROVIDERS
       IN CASE kind = "bad_syntax" ->
                 Return(c, <<"invalid", "bad_syntax", 0, <<"invalid_syntax">>>>)
            [] kind = "disposable" ->
                 Return(c, <<"invalid", "disposable_domain", 0,
                             <<"disposable_provider">>>>)
            [] kind = "role" ->
                 LET sr == calculate_score_and_risks(free, "risky", "role_based")
                 IN Return(c, <<"risky", "role_based", sr[1], sr[2]>>)
            [] OTHER ->
                 /\ call' = c
                 /\ cpc' = "lookup"
    /\ UNCHANGED <<last_dns, probed, jobVars, monVars, probeVars, smtpVars,
                   cacheVars, scoreVars, storeVars, jsVars, mtVars>>

\* mx_records = mx_cache.get_mx(domain)
CheckLookup ==
    /\ cpc = "lookup"
    /\ LET r == get_mx(mx_cache, call.domain, now)
           c == [call EXCEPT
                   !.neg_known =
                       (FreshSet(mx_sets, call.domain, now, MX_TTL) = {<< >>}),
                   !.prev_dns = last_dns[call.domain],
                   !.ca_known =
                       (FreshSet(probed, call.domain, now, CATCH_ALL_TTL) # {})]
       IN /\ mx_cache' = r[2]
          /\ IF r[1] = {}
             THEN call' = c /\ cpc' = "dns"
             ELSE IF r[1] = {<< >>}
             THEN Return(c, <<"invalid", "no_mx", 0, <<"no_mail_server">>>>)
             ELSE call' = c /\ cpc' = "smtp"
    /\ UNCHANGED <<now, ca_cache, mx_sets, ca_sets, last_get, driven,
                   last_dns, probed, jobVars, monVars, probeVars, smtpVars,
                   scoreVars, storeVars, jsVars, mtVars>>

\* The DNS query made on a cache miss and its except clauses.
CheckResolve(answer, recs) ==
    /\ cpc = "dns"
    /\ last_dns' = NoteDomain(last_dns, call.domain, answer)
    /\ mx_cache' = resolve_store(mx_cache, call.domain, answer, recs, now)
    /\ LET c == [call EXCEPT !.dns = answer] IN
         CASE answer = "records" ->
                /\ mx_sets' = NoteSet(mx_sets, call.domain, recs, now)
                /\ call' = c
                /\ cpc' = "smtp"
           [] answer \in {"nxdomain", "noanswer"} ->
                /\ mx_sets' = NoteSet(mx_sets, call.domain, << >>, now)
                /\ Return(c, <<"invalid", "no_mx", 0, <<"no_mail_server">>>>)
           [] answer = "timeout" ->
                /\ UNCHANGED mx_sets
                /\ Return(c, <<"invalid", "no_mx_dns_timeout", 0,
                               <<"no_mail_server">>>>)
           [] OTHER ->
                /\ UNCHANGED mx_sets
                /\ Return(c, <<"invalid", "no_mx", 0, <<"no_mail_server">>>>)
    /\ UNCHANGED <<now, ca_cache, ca_sets, last_get, driven, probed,
                   jobVars, monVars, probeVars, smtpVars, scoreVars,
                   storeVars, jsVars, mtVars>>

\* if _smtp_check_catch_all(mx_record, domain): return "risky", ...
CheckCatchAll(code) ==
    /\ cpc = "smtp"
    /\ probed' = NoteDomain(probed, call.domain,
                            {<<smtp_check_catch_all(code), now>>})
    /\ LET c == [call EXCEPT !.ca_probe = TRUE, !.ca_code = code]
           free == lower(call.domain) \in FREE_EMAIL_PROVIDERS
           sr == calculate_score_and_risks(free, "risky", "domain_accepts_all")
       IN IF smtp_check_catch_all(code)
          THEN Return(c, <<"risky", "domain_accepts_all", sr[1], sr[2]>>)
          ELSE call' = c /\ cpc' = "rcpt"
    /\ UNCHANGED <<last_dns, jobVars, monVars, probeVars, smtpVars, cacheVars,
                   scoreVars, storeVars, jsVars, mtVars>>

\* code, reason = _smtp_check_with_retry(email, mx_record) and the mapping
\* of its result.
CheckRcpt(res) ==
    /\ cpc = "rcpt"
    /\ LET free == lower(call.domain) \in FREE_EMAIL_PROVIDERS IN
         Return([call EXCEPT !.rcpt = TRUE],
                check_email_result(free, res[1], res[2]))
    /\ UNCHANGED <<last_dns, probed, jobVars, monVars, probeVars, smtpVars,
                   cacheVars, scoreVars, storeVars, jsVars, mtVars>>

InitCheck ==
    /\ cpc = "idle"
    /\ call = NoCall
    /\ last_dns = [x \in Domains |-> "none"]
    /\ probed = NoSets

\* ------------------------------------------------------------------------
\* app.py: calculate_score_and_risks on every reason code
\* ------------------------------------------------------------------------

\* The reason codes check_email, check_email_mock and run() produce, and
\* the older "smtp_soft_fail" form the function still tests for.
ReasonCodes ==
    {"bad_syntax", "empty_email", "disposable_domain", "role_based", "no_mx",
     "no_mx_dns_timeout", "smtp_ok", "smtp_timeout", "timeout_after_retry",
     "connection_refused", "connection_reset",
     "connection_error_os_error_OSError", "domain_accepts_all", "mock_valid",
     "mock_risky", "smtp_soft_fail", "smtp_251", "smtp_252", "smtp_500"}
    \cup {"smtp_reject_" \o ToString(c) : c \in HardRejects}
    \cup {"temp_fail_" \o ToString(c) : c \in TempFails}
    \cup {"temp_fail_" \o ToString(c) \o "_after_retry" : c \in TempFails}

NoScore == <<-1, << >>>>

ScoreApply ==
    /\ score_out = NoScore
    /\ score_out' = calculate_score_and_risks(score_in.free, score_in.status,
                                             score_in.reason)
    /\ UNCHANGED <<score_in, mock_email, mock_verdict, jobVars, monVars,
                   probeVars, smtpVars, cacheVars, checkVars, storeVars,
                   jsVars, mtVars>>

\* domain.endswith(suffix)
EndsWith(d, suffix) ==
    /\ Len(d) >= Len(suffix)
    /\ SubSeq(d, Len(d) - Len(suffix) + 1, Len(d)) = suffix

\* The domains check_email_mock treats as deliverable: example.com,
\* example.org, test.com.
MockValidDomains ==
    {<<101, 120, 97, 109, 112, 108, 101, 46, 99, 111, 109>>,
     <<101, 120, 97, 109, 112, 108, 101, 46, 111, 114, 103>>,
     <<116, 101, 115, 116, 46, 99, 111, 109>>}

\* Domains of the addresses passed to check_email_mock: Example.com,
\* aol.com, mit.edu, a.io, mailinator.com.
MockDomains ==
    {<<69, 120, 97, 109, 112, 108, 101, 46, 99, 111, 109>>,
     <<97, 111, 108, 46, 99, 111, 109>>,
     <<109, 105, 116, 46, 101, 100, 117>>, <<97, 46, 105, 111>>,
     <<109, 97, 105, 108, 105, 110, 97, 116, 111, 114, 46, 99, 111, 109>>}

\* check_email_mock(email): syntax_ok is the outcome of EMAIL_REGEX.match.
check_email_mock(syntax_ok, d, l) ==
    LET domain == lower(d)
        local == lower(l)
    IN IF ~syntax_ok
       THEN <<"invalid", "bad_syntax", 0, <<"invalid_syntax">>>>
       ELSE IF domain \in DISPOSABLE_DOMAINS
       THEN <<"invalid", "disposable_domain", 0, <<"disposable_provider">>>>
       ELSE IF local \in ROLE_BASED_PREFIXES
       THEN <<"risky", "role_based", 75, <<"role_based_email">>>>
       ELSE IF domain \in MockValidDomains
       THEN IF domain \in FREE_EMAIL_PROVIDERS
            THEN <<"valid", "mock_valid", 90, <<"free_email_provider">>>>
            ELSE <<"valid", "mock_valid", 95, << >>>>
       ELSE IF EndsWith(domain, <<46, 101, 100, 117>>) \/ EndsWith(domain, <<46, 103, 111, 118>>)
       THEN <<"valid", "mock_valid", 95, << >>>>
       ELSE IF domain \in FREE_EMAIL_PROVIDERS
       THEN <<"valid", "mock_valid", 95, <<"free_email_provider">>>>
       ELSE <<"risky", "mock_risky", 60, <<"unverifiable_domain">>>>

MockApply ==
    /\ mock_verdict = NoVerdict
    /\ mock_verdict' = check_email_mock(mock_email.syntax_ok,
                                        mock_email.domain, mock_email.local)
    /\ UNCHANGED <<score_in, score_out, mock_email, jobVars, monVars,
                   probeVars, smtpVars, cacheVars, checkVars, storeVars,
                   jsVars, mtVars>>

\* No call of calculate_score_and_risks or check_email_mock is followed.
ScoreOff ==
    /\ score_in = [reason |-> "", status |-> "", free |-> FALSE]
    /\ score_out = NoScore
    /\ mock_email = [syntax_ok |-> FALSE, domain |-> << >>, local |-> << >>]
    /\ mock_verdict = NoVerdict

InitScore ==
    /\ score_in \in [reason : ReasonCodes,
                     status : {"valid", "risky", "invalid"},
                     free : BOOLEAN]
    /\ score_out = NoScore
    /\ mock_email \in [syntax_ok : BOOLEAN, domain : MockDomains,
                       local : Locals]
    /\ mock_verdict = NoVerdict

\* ------------------------------------------------------------------------
\* job_state.py: JobStateManager
\* ------------------------------------------------------------------------

\* The callers of update_job: the worker (process_verification_job) and a
\* client that calls set_cancel.
Callers == {"worker", "api"}

\* hget(key, "data") of a key that does not exist; `job_id not in
\* self._memory_store`.
NoJob == [exists |-> FALSE, cancel |-> FALSE, processing_row |-> 0, row |-> 0]

\* job.update(updates) / self._memory_store[job_id].update(updates)
dict_update(job, updates) ==
    [f \in DOMAIN job |->
        IF f \in DOMAIN updates THEN updates[f] ELSE job[f]]

\* get_job followed by bool(job and job.get("cancel", False))
is_cancelled(job) == job.exists /\ job.cancel

\* The updates a caller passes to update_job: worker.py:88
\* {"processing_row": i}, update_progress(row = i, processing_row = i, ...),
\* worker.py:166 {"row": total, "processing_row": total, ...} after the
\* loop (the job has MaxRows rows), set_cancel's {"cancel": True}.
Updates(p) ==
    IF p = "api" THEN [cancel |-> TRUE]
    ELSE IF wstep = "processing" THEN [processing_row |-> wi]
    ELSE IF wstep = "progress" THEN [processing_row |-> wi, row |-> wi]
    ELSE [processing_row |-> MaxRows, row |-> MaxRows]

\* The caller is about to call update_job.
Calling(p) ==
    IF p = "api" THEN api_pc = "idle"
    ELSE wstep \in {"processing", "progress", "summary"}

\* update_job has returned `ret` to the caller: set_cancel returns it; the
\* worker ignores it and goes on (after the progress update, to the next
\* row or out of the loop and to the update that follows the loop).
Returned_update(p, ret) ==
    IF p = "api"
    THEN /\ api_pc' = "done"
         /\ cancel_returned' = ret
         /\ UNCHANGED <<wstep, wi>>
    ELSE /\ IF wstep = "processing"
            THEN wstep' = "progress" /\ UNCHANGED wi
            ELSE IF wstep = "progress" /\ wi < MaxRows
            THEN wstep' = "cancel?" /\ wi' = wi + 1
            ELSE IF wstep = "progress"
            THEN wstep' = "summary" /\ UNCHANGED wi
            ELSE wstep' = "stopped" /\ UNCHANGED wi
         /\ UNCHANGED <<api_pc, cancel_returned>>

\* update_job with the in-memory backend: the whole body under
\* self._memory_lock.
UpdateJobMemory(p) ==
    /\ ~use_redis
    /\ Calling(p)
    /\ IF job_store.exists
       THEN /\ job_store' = dict_update(job_store, Updates(p))
            /\ Returned_update(p, TRUE)
       ELSE /\ UNCHANGED job_store
            /\ Returned_update(p, FALSE)
    /\ UNCHANGED <<use_redis, upd_pc, upd_job, deleted, jobVars, monVars,
                   probeVars, smtpVars, cacheVars, checkVars, scoreVars,
                   storeVars, mtVars>>

\* update_job with Redis, first half: data = hget(key, "data"); return
\* False when there is none, else job = json.loads(data).
UpdateJobRead(p) ==
    /\ use_redis
    /\ Calling(p)
    /\ upd_pc[p] = "idle"
    /\ IF job_store.exists
       THEN /\ upd_job' = [upd_job EXCEPT ![p] = job_store]
            /\ upd_pc' = [upd_pc EXCEPT ![p] = "write"]
            /\ UNCHANGED <<wstep, wi, api_pc, cancel_returned>>
       ELSE /\ Returned_update(p, FALSE)
            /\ UNCHANGED <<upd_job, upd_pc>>
    /\ UNCHANGED <<use_redis, job_store, deleted, jobVars, monVars,
                   probeVars, smtpVars, cacheVars, checkVars, scoreVars,
                   storeVars, mtVars>>

\* update_job with Redis, second half: job.update(updates);
\* hset(key, {"data": json.dumps(job)}); return True.
UpdateJobWrite(p) ==
    /\ use_redis
    /\ upd_pc[p] = "write"
    /\ job_store' = dict_update(upd_job[p], Updates(p))
    /\ upd_job' = [upd_job EXCEPT ![p] = NoJob]
    /\ upd_pc' = [upd_pc EXCEPT ![p] = "idle"]
    /\ Returned_update(p, TRUE)
    /\ UNCHANGED <<use_redis, deleted, jobVars, monVars, probeVars,
                   smtpVars, cacheVars, checkVars, scoreVars, storeVars,
                   mtVars>>

\* worker.py: `if job_state.is_cancelled(job_id): ... return` at the top
\* of the loop body.
WorkerCheckCancel ==
    /\ wstep = "cancel?"
    /\ wstep' = IF is_cancelled(job_store) THEN "stopped" ELSE "processing"
    /\ UNCHANGED <<use_redis, job_store, upd_pc, upd_job, wi, api_pc,
                   cancel_returned, deleted, jobVars, monVars, probeVars,
                   smtpVars, cacheVars, checkVars, scoreVars, storeVars,
                   mtVars>>

\* delete_job, called once both callers are through.
DeleteJob ==
    /\ ~deleted
    /\ wstep = "stopped"
    /\ api_pc = "done"
    /\ job_store' = NoJob
    /\ deleted' = TRUE
    /\ UNCHANGED <<use_redis, upd_pc, upd_job, wstep, wi, api_pc,
                   cancel_returned, jobVars, monVars, probeVars, smtpVars,
                   cacheVars, checkVars, scoreVars, storeVars, mtVars>>

\* No JobStateManager is followed.
JobStateOff ==
    /\ use_redis = FALSE
    /\ job_store = NoJob
    /\ upd_pc = [p \in Callers |-> "idle"]
    /\ upd_job = [p \in Callers |-> NoJob]
    /\ wstep = "stopped"
    /\ wi = 0
    /\ api_pc = "done"
    /\ cancel_returned = FALSE
    /\ deleted = TRUE

\* After create_job: the job is in the store without a cancel mark, the
\* worker is at the top of its loop for row 1, set_cancel is still to be
\* called; either backend.
InitJobState ==
    /\ use_redis \in BOOLEAN
    /\ job_store = [exists |-> TRUE, cancel |-> FALSE,
                    processing_row |-> 0, row |-> 0]
    /\ upd_pc = [p \in Callers |-> "idle"]
    /\ upd_job = [p \in Callers |-> NoJob]
    /\ wstep = "cancel?"
    /\ wi = 1
    /\ api_pc = "idle"
    /\ cancel_returned = FALSE
    /\ deleted = FALSE

\* ------------------------------------------------------------------------
\* Specification of the job subsystem (no verification running)
\* ------------------------------------------------------------------------

InitJobs ==
    /\ req = [j \in JobIds |-> "new"]
    /\ inData = [j \in JobIds |-> FALSE]
    /\ cancel = [j \in JobIds |-> FALSE]
    /\ row = [j \in JobIds |-> 0]
    /\ total = [j \in JobIds |-> 0]
    /\ dbStatus = [j \in JobIds |-> "absent"]
    /\ last_heartbeat = [j \in JobIds |-> 0]
    /\ rpc = [j \in JobIds |-> "idle"]
    /\ i = [j \in JobIds |-> 0]
    /\ cancelledWhileActive = [j \in JobIds |-> FALSE]
    /\ summary_rows = [j \in JobIds |-> 0]
    /\ error_message = [j \in JobIds |-> FALSE]
    /\ heartbeats = [j \in JobIds |-> 0]
    /\ row_age = [j \in JobIds |-> 0]
    /\ results_for_db = [j \in JobIds |-> << >>]
    /\ job_results = [j \in JobIds |-> << >>]
    /\ monPc = "idle"
    /\ stalled = {}
    /\ warned = {}
    /\ last_warning = [j \in JobIds |-> 0]

NextJobs ==
    \/ \E j \in MonitoredJobs : VerifyAdmission(j)
    \/ \E j \in JobIds : VerifyCreate(j)
    \/ \E j \in JobIds : Cancel(j)
    \/ \E j \in JobIds : Runner(j)
    \/ MonitorRead
    \/ \E j \in JobIds : MonitorMark(j)
    \/ Tick

InitJobsSpec ==
    InitJobs /\ ProbeOff /\ InitSmtp /\ InitCache /\ InitCheck /\ ScoreOff
    /\ JobStateOff /\ MonitorThreadOff

SpecJobs == InitJobsSpec /\ [][NextJobs]_vars

\* The job subsystem with the time since each job's last recorded row
\* followed.
NextSlowRows ==
    \/ \E j \in MonitoredJobs : VerifyAdmission(j)
    \/ \E j \in JobIds : VerifyCreate(j)
    \/ \E j \in JobIds : Cancel(j)
    \/ \E j \in JobIds : Runner(j)
    \/ MonitorRead
    \/ \E j \in JobIds : MonitorMark(j)
    \/ TickRows

SpecSlowRows == InitJobsSpec /\ [][NextSlowRows]_vars

\* The runner threads, the monitor thread and the clock all keep running.
FairJobs ==
    /\ SpecJobs
    /\ WF_vars(Tick)
    /\ WF_vars(MonitorRead)
    /\ \A j \in JobIds : WF_vars(MonitorMark(j))
    /\ \A j \in JobIds : WF_vars(Runner(j))

\* ------------------------------------------------------------------------
\* Specification of one retrying probe
\* ------------------------------------------------------------------------

NextProbe == ProbeAttempt \/ ProbeSleep \/ ProbeProcessResult

InitProbeSpec ==
    InitJobs /\ InitProbe /\ InitSmtp /\ InitCache /\ InitCheck /\ ScoreOff
    /\ JobStateOff /\ MonitorThreadOff

SpecProbe == InitProbeSpec /\ [][NextProbe]_vars

\* ------------------------------------------------------------------------
\* Specification of concurrent verifications
\* ------------------------------------------------------------------------

NextSmtp == \E v \in Verifiers : CheckEmail(v)

InitSmtpSpec ==
    InitJobs /\ ProbeOff /\ InitSmtp /\ InitCache /\ InitCheck /\ ScoreOff
    /\ JobStateOff /\ MonitorThreadOff

SpecSmtp == InitSmtpSpec /\ [][NextSmtp]_vars

\* Every thread is scheduled, and every SMTP session terminates.
FairSmtp == SpecSmtp /\ \A v \in Verifiers : WF_vars(CheckEmail(v))

\* ------------------------------------------------------------------------
\* Specification of concurrent verifications with retrying probes
\* ------------------------------------------------------------------------

NextBackoff == \E v \in Verifiers : CheckEmailRetrying(v)

InitBackoffSpec ==
    InitJobs /\ ProbeOff /\ InitSmtp /\ InitCache /\ InitCheck /\ ScoreOff
    /\ JobStateOff /\ MonitorThreadOff

SpecBackoff == InitBackoffSpec /\ [][NextBackoff]_vars

\* ------------------------------------------------------------------------
\* Specification of the two caches under arbitrary calls
\* ------------------------------------------------------------------------

NextCache ==
    \/ \E d \in Domains, recs \in MxValues : MxSet(d, recs)
    \/ \E d \in Domains : MxSetNegative(d)
    \/ \E d \in Domains : MxGet(d)
    \/ MxClear
    \/ \E d \in Domains, b \in BOOLEAN : CaSet(d, b)
    \/ \E d \in Domains : CaGet(d)
    \/ CaClearExpired
    \/ CaClear
    \/ CaSize
    \/ MxStats
    \/ ClockTick

\* Each behaviour drives one of the two cache objects (they share no
\* state).
InitCacheSpec ==
    /\ InitJobs /\ ProbeOff /\ InitSmtp /\ InitCheck /\ ScoreOff
    /\ JobStateOff /\ MonitorThreadOff
    /\ now = 0
    /\ mx_cache = << >>
    /\ ca_cache = << >>
    /\ mx_sets = NoSets
    /\ ca_sets = NoSets
    /\ last_get = NoGet
    /\ driven \in {"mx", "ca"}

SpecCache == InitCacheSpec /\ [][NextCache]_vars

\* ------------------------------------------------------------------------
\* Specification of successive check_email calls
\* ------------------------------------------------------------------------

NextCheck ==
    \/ \E d \in AddressDomains, l \in Locals, syntax_ok \in BOOLEAN :
          CheckBegin(d, l, syntax_ok)
    \/ CheckLookup
    \/ \E answer \in DnsAnswers, recs \in MxValues : CheckResolve(answer, recs)
    \/ \E code \in CatchAllReplies : CheckCatchAll(code)
    \/ \E res \in ProbeResults : CheckRcpt(res)
    \/ ClockTick

InitCheckSpec ==
    InitJobs /\ ProbeOff /\ InitSmtp /\ InitCache /\ InitCheck /\ ScoreOff
    /\ JobStateOff /\ MonitorThreadOff

SpecCheck == InitCheckSpec /\ [][NextCheck]_vars

\* ------------------------------------------------------------------------
\* Specification of submissions: every job id is submitted, the jobs run,
\* the stall monitor and the clock stand still
\* ------------------------------------------------------------------------

NextAdmit ==
    \/ \E j \in JobIds : VerifyAdmission(j)
    \/ \E j \in JobIds : VerifyCreate(j)
    \/ \E j \in JobIds : Cancel(j)
    \/ \E j \in JobIds : Runner(j)

InitAdmitSpec ==
    InitJobs /\ ProbeOff /\ InitSmtp /\ InitCache /\ InitCheck /\ ScoreOff
    /\ JobStateOff /\ MonitorThreadOff

SpecAdmit == InitAdmitSpec /\ [][NextAdmit]_vars

\* ------------------------------------------------------------------------
\* Specification of the shared job state store
\* ------------------------------------------------------------------------

NextJobState ==
    \/ \E p \in Callers : UpdateJobMemory(p)
    \/ \E p \in Callers : UpdateJobRead(p)
    \/ \E p \in Callers : UpdateJobWrite(p)
    \/ WorkerCheckCancel
    \/ DeleteJob

InitJobStateSpec ==
    /\ InitJobs /\ ProbeOff /\ InitSmtp /\ InitCache /\ InitCheck /\ ScoreOff
    /\ InitJobState /\ MonitorThreadOff

SpecJobState == InitJobStateSpec /\ [][NextJobState]_vars

\* ------------------------------------------------------------------------
\* Specification of the monitor thread beside a job
\* ------------------------------------------------------------------------

NextMonitor ==
    \/ \E j \in MonitoredJobs : VerifyAdmission(j)
    \/ \E j \in JobIds : VerifyCreate(j)
    \/ \E j \in JobIds : Runner(j)
    \/ Tick
    \/ Start
    \/ StopCall
    \/ StopJoin
    \/ \E t \in ThreadIds : MonitorThread(t)

InitMonitorSpec ==
    /\ InitJobs /\ ProbeOff /\ InitSmtp /\ InitCache /\ InitCheck /\ ScoreOff
    /\ JobStateOff /\ InitMonitorThread

SpecMonitor == InitMonitorSpec /\ [][NextMonitor]_vars

\* The runner, the monitor thread and the clock keep running, and join
\* returns.
FairMonitor ==
    /\ SpecMonitor
    /\ WF_vars(Tick)
    /\ WF_vars(StopJoin)
    /\ \A j \in JobIds : WF_vars(Runner(j))
    /\ \A t \in ThreadIds : WF_vars(MonitorThread(t))

\* ------------------------------------------------------------------------
\* Specification of the scoring function on every input
\* ------------------------------------------------------------------------

NextScore ==
    \/ ScoreApply
    \/ MockApply

InitScoreSpec ==
    InitJobs /\ ProbeOff /\ InitSmtp /\ InitCache /\ InitCheck /\ InitScore
    /\ JobStateOff /\ MonitorThreadOff

SpecScore == InitScoreSpec /\ [][NextScore]_vars

\* ------------------------------------------------------------------------
\* Claims about the job subsystem
\* ------------------------------------------------------------------------

\* C1: the monitor sets a job's durable status to failed only if the status
\* is still running at the moment of the write; a status that has become
\* completed or cancelled is never changed to failed.
C1_FailedOnlyFromRunning ==
    [][\A j \in JobIds :
         (dbStatus'[j] = "failed" /\ dbStatus[j] # "failed")
            => dbStatus[j] = "running"]_vars

\* C2: a durable status that is completed, cancelled or failed never
\* changes again.
C2_TerminalIsFinal ==
    [][\A j \in JobIds :
         dbStatus[j] \in Terminal => dbStatus'[j] = dbStatus[j]]_vars

\* C3: when a cancel request was recorded while the runner was active, then
\* once the runner has finished the durable status is cancelled or
\* completed.
C3_CancelledOrCompleted ==
    \A j \in JobIds :
        (rpc[j] = "done" /\ cancelledWhileActive[j])
            => dbStatus[j] \in {"cancelled", "completed"}

\* C4: every submitted job eventually reaches a durable terminal status
\* (completed, cancelled or failed), the runner, the monitor and the clock
\* being scheduled fairly.
C4_EventuallyTerminal ==
    \A j \in JobIds : (dbStatus[j] = "running") ~> (dbStatus[j] \in Terminal)

\* C4 witness: a job whose runner died with the status still running has
\* been brought to failed by the monitor.
C4_Witness ==
    \E j \in JobIds : rpc[j] = "crashed" /\ dbStatus[j] = "failed"

\* ------------------------------------------------------------------------
\* Claims about the retrying probe
\* ------------------------------------------------------------------------

Attempts == Len(outcomes)

\* _smtp_check_with_retry has returned.
Returned == ppc \in {"returned", "done"}

IsTransient(o) == o.code = -1 \/ o.code \in {421, 450, 451, 452}

RejectReason ==
    [c \in 550..554 |->
        CASE c = 550 -> "smtp_reject_550"
          [] c = 551 -> "smtp_reject_551"
          [] c = 552 -> "smtp_reject_552"
          [] c = 553 -> "smtp_reject_553"
          [] c = 554 -> "smtp_reject_554"]

\* C8: an attempt returning a code in 550..554 is the last attempt and the
\* result is (code, smtp_reject_<code>); when the first attempt is a hard
\* reject exactly one attempt is made and no backoff sleep occurs, for
\* every configured retry count.
C8_HardRejectNotRetried ==
    /\ \A k \in 1..Attempts :
         outcomes[k].code \in 550..554
            => /\ k = Attempts
               /\ Returned
               /\ result = <<outcomes[k].code, RejectReason[outcomes[k].code]>>
    /\ (Attempts >= 1 /\ outcomes[1].code \in 550..554)
            => (Attempts = 1 /\ sleeps = 0)

\* C8 witness: a hard reject on the first attempt with retries configured.
C8_Witness ==
    /\ SMTP_RETRIES = MaxRetries
    /\ ppc = "returned"
    /\ Attempts = 1
    /\ outcomes[1].code = 553

\* C9: when the attempts return only transient outcomes until possibly a
\* 250, the number of attempts is min(SMTP_RETRIES + 1, index of the first
\* 250); a 250 ends the probe at once with (250, smtp_ok); the number of
\* attempts never exceeds SMTP_RETRIES + 1.
C9_AttemptCount ==
    /\ Attempts <= SMTP_RETRIES + 1
    /\ \A k \in 1..Attempts :
         outcomes[k].code = 250
            => (k = Attempts /\ Returned /\ result = <<250, "smtp_ok">>)
    /\ (/\ Returned
        /\ \A k \in 1..Attempts : IsTransient(outcomes[k]) \/ outcomes[k].code = 250)
            => \/ outcomes[Attempts].code = 250
               \/ Attempts = SMTP_RETRIES + 1

\* C9 witness: a timeout, then 250 on the second of three allowed attempts.
C9_Witness ==
    /\ SMTP_RETRIES = 2
    /\ ppc = "returned"
    /\ Attempts = 2
    /\ outcomes[1].detail = "timeout"
    /\ outcomes[2].code = 250

ExhaustedReason(o, retries) ==
    CASE o.detail = "timeout" ->
           IF retries = 0 THEN "smtp_timeout" ELSE "timeout_after_retry"
      [] o.detail = "connection_refused" -> "connection_refused"
      [] o.detail = "connection_reset" -> "connection_reset"
      [] o.code = 421 -> IF retries = 0 THEN "temp_fail_421" ELSE "temp_fail_421_after_retry"
      [] o.code = 450 -> IF retries = 0 THEN "temp_fail_450" ELSE "temp_fail_450_after_retry"
      [] o.code = 451 -> IF retries = 0 THEN "temp_fail_451" ELSE "temp_fail_451_after_retry"
      [] o.code = 452 -> IF retries = 0 THEN "temp_fail_452" ELSE "temp_fail_452_after_retry"

\* C10: when all SMTP_RETRIES + 1 attempts give transient outcomes, the
\* result is the code of the last attempt with a reason derived from the
\* last attempt only: timeout_after_retry (smtp_timeout when SMTP_RETRIES =
\* 0), connection_refused, connection_reset, temp_fail_<code>_after_retry
\* (without the suffix when SMTP_RETRIES = 0).
C10_ExhaustedResult ==
    (/\ Returned
     /\ Attempts = SMTP_RETRIES + 1
     /\ \A k \in 1..Attempts : IsTransient(outcomes[k])
     /\ outcomes[Attempts].detail # "os_error_OSError")
        => result = <<outcomes[Attempts].code,
                      ExhaustedReason(outcomes[Attempts], SMTP_RETRIES)>>

\* C10 witness: a timeout, a 450 and a final 451 with two retries.
C10_Witness ==
    /\ SMTP_RETRIES = 2
    /\ ppc = "returned"
    /\ Attempts = 3
    /\ outcomes[1].detail = "timeout"
    /\ outcomes[2].code = 450
    /\ result = <<451, "temp_fail_451_after_retry">>

\* C11: check_email maps the probe's final result by a fixed table: 250
\* gives valid with reason smtp_ok, 550..554 give invalid with score 0,
\* 421/450/451/452 or no code give risky; a probe answering 450 and then
\* 250 gives (valid, smtp_ok, 100, no risk factors) for a domain that is
\* not a free-mail provider, after exactly 2 RCPT attempts.
C11_StatusTable ==
    ppc = "done" =>
        /\ result[1] = 250 => (verdict[1] = "valid" /\ verdict[2] = "smtp_ok")
        /\ result[1] \in 550..554 => (verdict[1] = "invalid" /\ verdict[3] = 0)
        /\ result[1] \in {-1, 421, 450, 451, 452} => verdict[1] = "risky"
        /\ (/\ Attempts >= 2
            /\ outcomes[1].code = 450
            /\ outcomes[2].code = 250
            /\ ~free_mail)
              => (verdict = <<"valid", "smtp_ok", 100, << >>>> /\ Attempts = 2)

\* C11 witness: 450, then 250, for a domain that is not a free-mail
\* provider, with one retry configured.
C11_Witness ==
    /\ ppc = "done"
    /\ SMTP_RETRIES = 1
    /\ ~free_mail
    /\ Attempts = 2
    /\ outcomes[1].code = 450
    /\ verdict = <<"valid", "smtp_ok", 100, << >>>>

\* ------------------------------------------------------------------------
\* Claims about the SMTP concurrency control
\* ------------------------------------------------------------------------

\* Verifications with an SMTP session in progress.
Sessions == {v \in Verifiers : vpc[v] \in {"catch_all", "probe"}}

Holders(name) == {v \in Verifiers : \E k \in 1..Len(held[v]) : held[v][k] = name}

\* C5: at every moment the number of SMTP sessions in progress (catch-all
\* and RCPT probes together) is at most the global cap, and the number in
\* progress for any one domain, compared ignoring letter case, is at most
\* the per-domain cap.
C5_SessionCaps ==
    /\ Cardinality(Sessions) <= SMTP_GLOBAL_WORKERS
    /\ \A d \in Domains :
         Cardinality({v \in Sessions : SameDomain(vdomain[v], d)})
            <= SMTP_PER_DOMAIN_LIMIT

\* C5 witness: a session for one spelling of a domain keeps a verification
\* of another spelling of it waiting, with no global permit left.
C5_Witness ==
    \E v, w \in Verifiers :
        /\ v \in Sessions
        /\ vpc[w] = "acq_domain"
        /\ domain_semaphores[domain_sem[w]] = 0
        /\ vdomain[v] # vdomain[w]
        /\ SameDomain(vdomain[v], vdomain[w])
        /\ smtp_global_semaphore = 0

\* C6: a verification that acquired a global and a per-domain slot has
\* released both when it returns, whatever the exit path; the permits
\* available always equal the cap minus the slots held, so that with no
\* verification in progress all permits are available again.
C6_PermitsBalanced ==
    /\ smtp_global_semaphore
          = SMTP_GLOBAL_WORKERS - Cardinality(Holders("global"))
    /\ \A k \in DOMAIN domain_semaphores :
         domain_semaphores[k]
            = SMTP_PER_DOMAIN_LIMIT
                - Cardinality({v \in Holders("domain") : domain_sem[v] = k})
    /\ \A v \in Verifiers : vpc[v] = "returned" => held[v] = << >>
    /\ (\A v \in Verifiers : vpc[v] \in {"idle", "returned"})
          => /\ smtp_global_semaphore = SMTP_GLOBAL_WORKERS
             /\ \A k \in DOMAIN domain_semaphores :
                  domain_semaphores[k] = SMTP_PER_DOMAIN_LIMIT

\* C6 witness: three verifications have returned, one by each exit path
\* (catch-all early return, probe result, exception).
C6_Witness ==
    /\ \A v \in Verifiers : vpc[v] = "returned"
    /\ {vexit[v] : v \in Verifiers} = {"catch_all", "result", "exception"}
    /\ DOMAIN domain_semaphores # {}

\* C7: the global slot is always acquired before the per-domain slot, and
\* every verification waiting for a slot is eventually admitted and
\* returns, given that threads are scheduled and SMTP sessions terminate.
C7_OrderedAndLive ==
    /\ [](\A v \in Verifiers :
            held[v] \in {<< >>, <<"global">>, <<"global", "domain">>})
    /\ \A v \in Verifiers :
         (vpc[v] \in {"acq_global", "acq_domain"}) ~> (vpc[v] = "returned")

\* C7 witness: a verification had to wait for a slot, and all three have
\* returned from their SMTP checks.
C7_Witness ==
    /\ waited
    /\ \A v \in Verifiers : vpc[v] = "returned" /\ vexit[v] # "no_smtp"

\* ------------------------------------------------------------------------
\* Claims about the caches
\* ------------------------------------------------------------------------

\* What a get of domain d must return at the present time: the value last
\* set for a spelling of d if that set is at most ttl old, else nothing.
ExpectedGet(sets, d, ttl) ==
    {e[1] : e \in {x \in sets[d] : now - x[2] <= ttl}}

\* C12: in both caches, after set(d, v) a get(d') returns v for every d'
\* equal to d ignoring letter case while the time since that set is at most
\* the TTL and no later set or clear occurred, and returns absent once the
\* time since the set exceeds the TTL.
C12_GetWithinTtl ==
    /\ last_get.cache = "mx"
          => last_get.ret = ExpectedGet(mx_sets, last_get.domain, MX_TTL)
    /\ last_get.cache = "ca"
          => last_get.ret = ExpectedGet(ca_sets, last_get.domain, CATCH_ALL_TTL)

\* C12 witness: a get made exactly one TTL after the set still returns the
\* value, in a cache where an expired entry of another domain was dropped.
C12_Witness ==
    /\ last_get.cache = "ca"
    /\ last_get.ret = {TRUE}
    /\ \E e \in ca_sets[last_get.domain] : now - e[2] = CATCH_ALL_TTL
    /\ \E d \in Domains : ca_sets[d] # {} /\ lower(d) \notin DOMAIN ca_cache

\* ------------------------------------------------------------------------
\* Claims about check_email and the caches
\* ------------------------------------------------------------------------

NoMx == <<"invalid", "no_mx", 0, <<"no_mail_server">>>>

C15_CatchAllProbedOnce ==
    /\ \A d \in Domains :
         probed[d] # {} => \E k \in DOMAIN ca_cache : SameDomain(k, d)
    /\ call.ca_known => ~call.ca_probe

\* C16: the catch-all probe reports true only for a 250 reply; when it
\* reports true check_email returns risky with reason domain_accepts_all
\* and makes no RCPT probe for the address; when it reports false the RCPT
\* probe is made.
C16_CatchAllDecision ==
    /\ call.ca_probe
          => \E e \in probed[call.domain] : e[1] = (call.ca_code = 250)
    /\ cpc = "rcpt" => (call.ca_probe /\ call.ca_code # 250)
    /\ (cpc = "idle" /\ call.ca_probe)
          => IF call.ca_code = 250
             THEN /\ call.verdict[1] = "risky"
                  /\ call.verdict[2] = "domain_accepts_all"
                  /\ ~call.rcpt
             ELSE call.rcpt

\* C16 witness: the catch-all session got 251, the address was probed and
\* found valid.
C16_Witness ==
    /\ cpc = "idle"
    /\ call.ca_probe
    /\ call.ca_code = 251
    /\ call.rcpt
    /\ call.verdict[1] = "valid"

\* ------------------------------------------------------------------------
\* Claims about scoring
\* ------------------------------------------------------------------------

\* C17: for every reason code and every domain the score lies in 0..100,
\* and for bad_syntax, empty_email, disposable_domain, no_mx,
\* no_mx_dns_timeout and every smtp_reject_<code> the score is exactly 0
\* with exactly one risk tag, also for free-mail domains.
C17_ScoreRange ==
    score_out # NoScore =>
        /\ score_out[1] >= 0
        /\ score_out[1] <= 100
        /\ score_in.reason \in {"bad_syntax", "empty_email",
                                "disposable_domain", "no_mx",
                                "no_mx_dns_timeout", "smtp_reject_550",
                                "smtp_reject_551", "smtp_reject_552",
                                "smtp_reject_553", "smtp_reject_554"}
              => (score_out[1] = 0 /\ Len(score_out[2]) = 1)

\* C17 witness: a hard reject at a free-mail domain scores 0 with the one
\* tag mailbox_not_found.
C17_Witness ==
    /\ score_in.reason = "smtp_reject_552"
    /\ score_in.free
    /\ score_out = <<0, <<"mailbox_not_found">>>>

\* ------------------------------------------------------------------------
\* Claims about the rows of a job
\* ------------------------------------------------------------------------

\* C18: the completed-row count reported for a job never decreases and
\* never exceeds total_rows; rows are completed one at a time in input
\* order (the count moves from i - 1 to i when row i is recorded); the
\* loop is left only at a row boundary, so a row in progress when cancel
\* is requested is finished and counted; and once the cancel flag is
\* observed the count, i - 1, is final.
C18_RowCount ==
    /\ [](\A j \in JobIds :
            progress_row(j) >= 0 /\ progress_row(j) <= total[j])
    /\ [][\A j \in JobIds :
            /\ progress_row(j)' \in {progress_row(j), progress_row(j) + 1}
            /\ progress_row(j)' # progress_row(j) =>
                   (rpc[j] = "record" /\ progress_row(j)' = i[j])
            /\ (rpc[j] # "finalize" /\ rpc'[j] = "finalize") =>
                   \/ /\ rpc[j] = "check"
                      /\ inData[j] =>
                            (cancel[j] /\ progress_row(j)' = i[j] - 1)
                   \/ /\ rpc[j] = "record"
                      /\ progress_row(j)' = total[j]
            /\ rpc[j] \in {"finalize", "save_results", "save_completed",
                           "done", "crashed"} =>
                   progress_row(j)' = progress_row(j)
       ]_vars

\* C18 witness: cancel was requested while row 1 of 2 was in progress; the
\* row was finished and counted, the flag was seen before row 2, and the
\* job ended cancelled with one completed row.
C18_Witness ==
    \E j \in JobIds :
        /\ cancelledWhileActive[j]
        /\ dbStatus[j] = "cancelled"
        /\ rpc[j] = "done"
        /\ total[j] = 2
        /\ i[j] = 2
        /\ progress_row(j) = 1

\* ------------------------------------------------------------------------
\* Claims about the stall monitor
\* ------------------------------------------------------------------------

\* C19: a step of the monitor's check cycle changes a job only if, when the
\* monitor writes, the job's durable status is running and its
\* last_heartbeat is older than the stall timeout; a running job with a
\* newer heartbeat, and a job that is not running, is never changed by the
\* monitor.
C19_MonitorChangesOnlyStalled ==
    [][\A j \in JobIds :
         (monPc = "iter" /\ j \in stalled /\ j \notin stalled'
             /\ dbStatus'[j] # dbStatus[j])
            => (dbStatus[j] = "running"
                   /\ last_heartbeat[j] > JOB_STALL_TIMEOUT)]_vars

\* ------------------------------------------------------------------------
\* Claims about a row that fails
\* ------------------------------------------------------------------------

\* C20: an exception raised while a row is being processed does not end
\* the runner: from the steps of a row (verify, heartbeat, record) the
\* runner goes on to the next step or row, never to its death.
C20_RowFailureContinues ==
    [][\A j \in JobIds :
         rpc[j] \in {"verify", "heartbeat", "record"}
            => rpc'[j] # "crashed"]_vars

\* ------------------------------------------------------------------------
\* Claims about a heartbeat that cannot be written
\* ------------------------------------------------------------------------

\* C21: when the heartbeat of a row cannot be written to the store the
\* runner is not ended by it: from the heartbeat step it always goes on to
\* recording the row.
C21_HeartbeatFailureContinues ==
    [][\A j \in JobIds :
         (rpc[j] = "heartbeat" /\ rpc'[j] # "heartbeat")
            => rpc'[j] = "record"]_vars

\* ------------------------------------------------------------------------
\* Claims about admission
\* ------------------------------------------------------------------------

\* The larger of the number of unfinished, uncancelled jobs in memory and
\* the number of jobs whose durable status is running.
RunningJobs ==
    LET inMemory ==
          Cardinality({k \in JobIds :
                          inData[k] /\ row[k] < total[k] /\ ~cancel[k]})
        inStore == Cardinality({k \in JobIds : dbStatus[k] = "running"})
    IN IF inMemory >= inStore THEN inMemory ELSE inStore

\* C22: a submission made while the count of running jobs is at least
\* MAX_CONCURRENT_JOBS is rejected, and the rejection changes nothing: the
\* job has no record in memory, none in the store, and no runner, and
\* the other jobs are left as they are.
C22_RejectedNoEffect ==
    /\ [](\A j \in JobIds :
            req[j] = "rejected" =>
                (dbStatus[j] = "absent" /\ ~inData[j] /\ rpc[j] = "idle"))
    /\ [][\A j \in JobIds :
            (req[j] = "new" /\ req'[j] # "new") =>
                IF RunningJobs >= MAX_CONCURRENT_JOBS
                THEN /\ req'[j] = "rejected"
                     /\ UNCHANGED <<inData, cancel, row, total, dbStatus,
                                    last_heartbeat, rpc, i>>
                ELSE req'[j] = "admitted"
       ]_vars

\* C22 witness: a submission was rejected while another job was running.
C22_Witness ==
    \E j, k \in JobIds :
        /\ req[j] = "rejected"
        /\ dbStatus[k] = "running"
        /\ RunnerActive(k)

\* ------------------------------------------------------------------------
\* Claims about the result a terminal job carries
\* ------------------------------------------------------------------------

\* C23: a job whose durable status is terminal carries a populated result:
\* completed, the summary counts add up to total_rows; cancelled, they add
\* up to the rows processed before the cancel, at the latest when the
\* runner has finished; failed, there is an error message.
C23_TerminalHasResult ==
    \A j \in JobIds :
        /\ dbStatus[j] = "completed" => summary_rows[j] = total[j]
        /\ (dbStatus[j] = "cancelled" /\ rpc[j] = "done")
              => summary_rows[j] = row[j]
        /\ dbStatus[j] = "failed" => error_message[j]

\* ------------------------------------------------------------------------
\* Claims about the shared job state store
\* ------------------------------------------------------------------------

\* C24: once set_cancel has returned True, and until the job is deleted,
\* the job in the store carries the cancel mark (is_cancelled returns
\* True), whatever updates the worker makes meanwhile, with either
\* backend.
C24_CancelNeverLost ==
    (api_pc = "done" /\ cancel_returned /\ ~deleted)
        => is_cancelled(job_store)

\* ------------------------------------------------------------------------
\* Claims about the runner after a terminal status
\* ------------------------------------------------------------------------

\* C25: once a job's durable status is terminal (completed, cancelled, or
\* failed as set by the monitor while the runner is alive) the runner
\* starts on no further row of the job and writes no further heartbeat.
C25_NoWorkAfterTerminal ==
    [][\A j \in JobIds :
         dbStatus[j] \in Terminal
            => /\ ~(rpc[j] = "check" /\ rpc'[j] = "verify")
               /\ heartbeats'[j] = heartbeats[j]]_vars

\* ------------------------------------------------------------------------
\* Claims about the order of the checks of check_email
\* ------------------------------------------------------------------------

\* The call made no DNS query and opened no SMTP session.
NoNetwork(c) == c.dns = "none" /\ ~c.ca_probe /\ ~c.rcpt

\* C26: check_email applies syntax, disposable domain, role-based local
\* part, MX lookup, catch-all and RCPT probe in this order and the first
\* check that decides ends the call: an address that fails the syntax
\* check, or is at a disposable domain, or has a role-based local part,
\* is answered at once with no DNS query, no cache write and no SMTP
\* session; a disposable domain is reported even when the local part is
\* role-based; the later stages are reached only one after the other.
C26_CheckOrder ==
    /\ []((cpc = "idle" /\ call # NoCall) =>
            /\ ~call.syntax_ok =>
                  (call.verdict[2] = "bad_syntax" /\ NoNetwork(call))
            /\ (call.syntax_ok /\ lower(call.domain) \in DISPOSABLE_DOMAINS) =>
                  (call.verdict[2] = "disposable_domain" /\ NoNetwork(call))
            /\ (call.syntax_ok /\ lower(call.domain) \notin DISPOSABLE_DOMAINS
                  /\ lower(call.local) \in ROLE_BASED_PREFIXES) =>
                  (call.verdict[2] = "role_based" /\ NoNetwork(call)))
    /\ [](cpc \in {"lookup", "dns", "smtp", "rcpt"} =>
            /\ call.syntax_ok
            /\ lower(call.domain) \notin DISPOSABLE_DOMAINS
            /\ lower(call.local) \notin ROLE_BASED_PREFIXES)
    /\ [](call.rcpt => (call.ca_probe /\ call.ca_code # 250))
    /\ [](call.ca_probe => call.dns \in {"none", "records"})
    /\ [][(cpc = "idle" /\ cpc' = "idle" /\ call' # call) =>
             UNCHANGED <<mx_cache, ca_cache, last_dns, probed>>]_vars

\* C26 witness: info@Mailinator.com was answered disposable_domain.
C26_Witness ==
    /\ cpc = "idle"
    /\ call.syntax_ok
    /\ lower(call.local) \in ROLE_BASED_PREFIXES
    /\ lower(call.domain) \in DISPOSABLE_DOMAINS
    /\ call.verdict = <<"invalid", "disposable_domain", 0,
                        <<"disposable_provider">>>>

\* ------------------------------------------------------------------------
\* Claims about the deductions of the score
\* ------------------------------------------------------------------------

\* The reasons whose score is forced to 0.
HardZeroReasons ==
    {"bad_syntax", "empty_email", "disposable_domain", "no_mx",
     "no_mx_dns_timeout", "smtp_reject_550", "smtp_reject_551",
     "smtp_reject_552", "smtp_reject_553", "smtp_reject_554"}

\* The conditions with their deductions: role_based 25, SMTP timeout or
\* retries exhausted 25, connection refused or reset 30, temporary 4xx
\* failure 25, other generic SMTP error 30, domain_accepts_all 15,
\* free-mail domain 5.
ListedConditions(reason, free) ==
    << <<reason = "role_based", 25>>,
       <<reason \in {"smtp_timeout", "timeout_after_retry"}, 25>>,
       <<reason \in {"connection_refused", "connection_reset"}, 30>>,
       <<reason \in {"smtp_soft_fail", "temp_fail_421", "temp_fail_450",
                     "temp_fail_451", "temp_fail_452",
                     "temp_fail_421_after_retry", "temp_fail_450_after_retry",
                     "temp_fail_451_after_retry", "temp_fail_452_after_retry"},
         25>>,
       <<reason \in {"smtp_251", "smtp_252", "smtp_500"}, 30>>,
       <<reason = "domain_accepts_all", 15>>,
       <<free, 5>> >>

\* The same with the deduction of 40 for mock_risky.
AllConditions(reason, free) ==
    ListedConditions(reason, free) \o << <<reason = "mock_risky", 40>> >>

Matching(conds) == SelectSeq(conds, LAMBDA c : c[1])

RECURSIVE Deducted(_)
Deducted(m) == IF m = << >> THEN 0 ELSE m[1][2] + Deducted(Tail(m))

\* The score is 100 minus the deductions of the matching conditions,
\* clamped to 0..100, with one risk tag per matching condition.
Agrees(out, conds) ==
    LET m == Matching(conds)
        raw == 100 - Deducted(m)
    IN /\ out[1] = (IF raw < 0 THEN 0 ELSE IF raw > 100 THEN 100 ELSE raw)
       /\ Len(out[2]) = Len(m)

\* role_based at a domain that is not a free-mail provider gives 75 with
\* the one tag role_based_email, from calculate_score_and_risks and from
\* check_email_mock.
RoleBasedExample ==
    /\ (score_out # NoScore /\ score_in.reason = "role_based"
           /\ ~score_in.free)
          => score_out = <<75, <<"role_based_email">>>>
    /\ (mock_verdict # NoVerdict /\ mock_verdict[2] = "role_based"
           /\ lower(mock_email.domain) \notin FREE_EMAIL_PROVIDERS)
          => mock_verdict = <<"risky", "role_based", 75,
                              <<"role_based_email">>>>

\* C27 as stated: for every reason that is not a hard-zero reason and
\* every domain the score is 100 minus the deductions of the matching
\* conditions among role_based 25, SMTP timeout 25, connection refused or
\* reset 30, temporary 4xx failure 25, generic SMTP error 30,
\* domain_accepts_all 15 and free-mail domain 5, clamped to 0..100, with
\* one risk tag per matching condition; role_based at a non-free-mail
\* domain gives 75 with role_based_email in real and in mock mode.
C27_ListedDeductions ==
    /\ (score_out # NoScore /\ score_in.reason \notin HardZeroReasons)
          => Agrees(score_out,
                    ListedConditions(score_in.reason, score_in.free))
    /\ RoleBasedExample

\* C27 amended: the same with one more condition, mock_risky, which
\* deducts 40 and adds one tag.
C27_AllDeductions ==
    /\ (score_out # NoScore /\ score_in.reason \notin HardZeroReasons)
          => Agrees(score_out, AllConditions(score_in.reason, score_in.free))
    /\ RoleBasedExample

\* C27 witness: mock_risky at a free-mail domain scores 100 - 40 - 5 with
\* two tags, and the mock verification of a role-based address at a
\* domain that is not free-mail gave 75.
C27_Witness ==
    /\ score_in.reason = "mock_risky"
    /\ score_in.free
    /\ score_out = <<55, <<"unverifiable_domain", "free_email_provider">>>>
    /\ mock_verdict = <<"risky", "role_based", 75, <<"role_based_email">>>>
    /\ lower(mock_email.domain) \notin FREE_EMAIL_PROVIDERS

\* ------------------------------------------------------------------------
\* Claims about the runner's heartbeats
\* ------------------------------------------------------------------------

\* C28: the runner writes a heartbeat exactly at the rows whose index is a
\* multiple of JOB_HEARTBEAT_INTERVAL_ROWS: between two rows and after the
\* loop, with n rows processed, it has written n \div K heartbeats (the
\* heartbeat of row i is written before row i is recorded, so the count at
\* the recording of row i is i \div K), and a job with fewer than K rows
\* gets no heartbeat from the runner.
C28_HeartbeatEveryK ==
    \A j \in JobIds :
        /\ rpc[j] \in {"check", "finalize", "save_results", "save_completed",
                       "done"}
              => heartbeats[j] = row[j] \div JOB_HEARTBEAT_INTERVAL_ROWS
        /\ rpc[j] = "record"
              => heartbeats[j] = i[j] \div JOB_HEARTBEAT_INTERVAL_ROWS
        /\ total[j] < JOB_HEARTBEAT_INTERVAL_ROWS => heartbeats[j] = 0

\* C28 witness: a job of K rows has run to completion with one heartbeat.
C28_Witness ==
    \E j \in JobIds :
        /\ rpc[j] = "done"
        /\ dbStatus[j] = "completed"
        /\ row[j] = JOB_HEARTBEAT_INTERVAL_ROWS
        /\ heartbeats[j] = 1

\* ------------------------------------------------------------------------
\* Claims about the monitor thread
\* ------------------------------------------------------------------------

\* C29: an error raised by the durable store during a cycle ends the
\* cycle with result 0 and leaves the thread in its loop (the thread ends
\* only with the stop event set); after its sleep the thread runs the next
\* cycle, and a job that is stalled after a failed cycle is marked failed
\* later, unless it stops being stalled or the monitor is stopped.
C29_StoreErrorSurvived ==
    /\ [][faults' # faults =>
            /\ cycle_result' = 0
            /\ \A t \in ThreadIds : tpc[t] = "cycle" => tpc'[t] = "sleep"]_vars
    /\ [][\A t \in ThreadIds :
            (tpc[t] # "dead" /\ tpc'[t] = "dead") => stop_event]_vars
    /\ (thread # 0 /\ tpc[thread] = "sleep")
          ~> ((thread # 0 /\ tpc[thread] = "cycle") \/ stop_event)
    /\ \A j \in MonitoredJobs :
          (faults > 0 /\ j \in get_stalled_jobs)
             ~> (dbStatus[j] = "failed" \/ j \notin get_stalled_jobs
                   \/ stop_event)

\* C29 witness: after a cycle ended by an error of the store, a later
\* cycle of the same running monitor has marked a job failed.
C29_Witness ==
    /\ faults > 0
    /\ cycle_result = 1
    /\ ~stop_event
    /\ thread # 0 /\ tpc[thread] = "sleep"
    /\ \E j \in JobIds : dbStatus[j] = "failed" /\ error_message[j]

\* The step in which thread t enters check_stalled_jobs_once.
CycleBegins(t) ==
    /\ tpc[t] = "cycle" /\ monPc = "idle"
    /\ (tpc'[t] # "cycle" \/ monPc' # "idle")

Alive == {t \in ThreadIds : tpc[t] # "dead"}

\* C30: with the stop event set by stop() no thread begins a check cycle,
\* and the thread terminates; start() with the thread alive creates no
\* thread, at most one monitor thread is alive at any time, and stop() on
\* a monitor that was never started changes nothing.
C30_StopEndsCycles ==
    /\ [][\A t \in ThreadIds : stop_event => ~CycleBegins(t)]_vars
    /\ stop_event ~> (Alive = {})
    /\ [][(Alive # {} /\ last_call' # last_call
              /\ last_call' \in {"start: already running", "start: disabled"})
             => (tpc' = tpc /\ thread' = thread)]_vars
    /\ [](Cardinality(Alive) <= 1)
    /\ [][(thread = 0 /\ last_call' # last_call
              /\ last_call' = "stop: no thread")
             => UNCHANGED <<stop_event, thread, tpc, stop_pc>>]_vars

\* ------------------------------------------------------------------------
\* Claims about expired cache entries
\* ------------------------------------------------------------------------

\* The stored entries of a cache that are older than ttl at the present
\* time.
Expired(cache, ttl) == {k \in DOMAIN cache : now - cache[k][2] > ttl}

\* The step is a get of a spelling of the stored domain k.
GetOf(tag, k) == last_get'.cache = tag /\ lower(last_get'.domain) = k

\* The step is a clear() of the cache.
ClearStep(cache, sets) == cache' = << >> /\ sets' = NoSets

\* size and get_stats count every stored entry, expired or not, and
\* get_stats counts the expired ones as expired.
CountsExpired ==
    /\ last_get.cache = "ca.size"
          => last_get.ret = {Cardinality(DOMAIN ca_cache)}
    /\ last_get.cache = "mx.get_stats"
          => last_get.ret =
               {[cache_size |-> Cardinality(DOMAIN mx_cache),
                 expired_count |-> Cardinality(Expired(mx_cache, MX_TTL))]}

\* clear_expired removes exactly the entries older than the TTL, returns
\* their number and leaves the other entries with their timestamps.
ClearExpiredExact ==
    last_get'.cache = "ca.clear_expired" =>
        /\ DOMAIN ca_cache' = DOMAIN ca_cache \ Expired(ca_cache, CATCH_ALL_TTL)
        /\ \A k \in DOMAIN ca_cache' : ca_cache'[k] = ca_cache[k]
        /\ last_get'.ret = {Cardinality(Expired(ca_cache, CATCH_ALL_TTL))}

\* C31 as stated: an expired entry stays stored, counted by size and by
\* get_stats, until a get for its domain or clear_expired removes it;
\* clear_expired removes exactly the entries whose age exceeds the TTL,
\* returns their number, and leaves every unexpired entry and its
\* timestamp unchanged.
C31_RemovedByGetOrClearExpired ==
    /\ []CountsExpired
    /\ [][/\ \A k \in Expired(ca_cache, CATCH_ALL_TTL) :
                k \notin DOMAIN ca_cache'
                   => (GetOf("ca", k) \/ last_get'.cache = "ca.clear_expired")
          /\ \A k \in Expired(mx_cache, MX_TTL) :
                k \notin DOMAIN mx_cache' => GetOf("mx", k)
          /\ ClearExpiredExact]_vars

\* C31 amended: the same, with clear() as a third way for an expired entry
\* to leave the cache.
C31_ExpiredStaysStored ==
    /\ []CountsExpired
    /\ [][/\ \A k \in Expired(ca_cache, CATCH_ALL_TTL) :
                k \notin DOMAIN ca_cache'
                   => \/ GetOf("ca", k)
                      \/ last_get'.cache = "ca.clear_expired"
                      \/ ClearStep(ca_cache, ca_sets)
          /\ \A k \in Expired(mx_cache, MX_TTL) :
                k \notin DOMAIN mx_cache'
                   => (GetOf("mx", k) \/ ClearStep(mx_cache, mx_sets))
          /\ ClearExpiredExact]_vars

\* C31 witness: clear_expired has just removed one expired entry and left
\* an unexpired one.
C31_Witness ==
    /\ last_get.cache = "ca.clear_expired"
    /\ last_get.ret = {1}
    /\ ca_cache # << >>
    /\ Expired(ca_cache, CATCH_ALL_TTL) = {}

\* C31 witness of the count: get_stats reports two stored entries, one of
\* them expired.
C31_WitnessStats ==
    /\ last_get.cache = "mx.get_stats"
    /\ last_get.ret = {[cache_size |-> 2, expired_count |-> 1]}

\* ------------------------------------------------------------------------
\* Claims about the slots during the probe's retries
\* ------------------------------------------------------------------------

\* Verifications between the start of the catch-all probe and the return
\* of the retry loop.
InSmtpChecks == {v \in Verifiers : vpc[v] \in {"catch_all", "probe", "backoff"}}

\* C32: from the catch-all probe until the retry loop has returned, the
\* sleeps between attempts included, a verification holds its global slot
\* and its per-domain slot, and each of them is missing from the permits
\* of the semaphore it was taken from.
C32_SlotsHeldInBackoff ==
    /\ \A v \in InSmtpChecks : held[v] = <<"global", "domain">>
    /\ smtp_global_semaphore <= SMTP_GLOBAL_WORKERS - Cardinality(InSmtpChecks)
    /\ \A k \in DOMAIN domain_semaphores :
         domain_semaphores[k]
            <= SMTP_PER_DOMAIN_LIMIT
                 - Cardinality({v \in InSmtpChecks : domain_sem[v] = k})

\* C32 witness: a verification sleeps between two attempts while another
\* waits for the slot of the same domain and a third for a global slot.
C32_Witness ==
    \E v, w, u \in Verifiers :
        /\ vpc[v] = "backoff" /\ vattempt[v] >= 1
        /\ vpc[w] = "acq_domain" /\ domain_sem[w] = domain_sem[v]
        /\ domain_semaphores[domain_sem[w]] = 0
        /\ vpc[u] = "acq_global" /\ smtp_global_semaphore = 0

\* No verification is in its SMTP checks for the domain of v.
DomainIdle(v) ==
    \A w \in InSmtpChecks : ~SameDomain(vdomain[w], vdomain[v])

\* C35: global slots are work-conserving: no verification for an idle
\* domain is kept waiting for the global semaphore while a global slot is
\* held by a verification that itself waits for a busy domain's slot.
C35_WorkConserving ==
    \A v, w \in Verifiers :
        ~ /\ vpc[v] = "acq_global"
          /\ ~sem_can_acquire(smtp_global_semaphore)
          /\ DomainIdle(v)
          /\ vpc[w] = "acq_domain"
          /\ ~sem_can_acquire(domain_semaphores[domain_sem[w]])

\* ------------------------------------------------------------------------
\* Claims about slow rows and the stall monitor
\* ------------------------------------------------------------------------

\* C33: a job whose runner is alive in its loop over the rows and has
\* recorded a row within the stall timeout is never marked failed by the
\* monitor.
C33_NoFalseStall ==
    [][\A j \in JobIds :
         (dbStatus[j] = "running" /\ dbStatus'[j] = "failed")
            => ~ /\ rpc[j] \in {"check", "verify", "heartbeat", "record"}
                 /\ row[j] >= 1
                 /\ row_age[j] <= JOB_STALL_TIMEOUT]_vars

\* ------------------------------------------------------------------------
\* Claims about the progress fields kept by the worker
\* ------------------------------------------------------------------------

\* C34: the completed-row count (row) and processing_row of the stored job
\* never decrease, never exceed the number of rows, and always satisfy
\* row <= processing_row <= row + 1.
C34_ProgressMonotone ==
    /\ [](job_store.exists =>
            /\ job_store.row <= MaxRows
            /\ job_store.processing_row <= MaxRows
            /\ job_store.row <= job_store.processing_row
            /\ job_store.processing_row <= job_store.row + 1)
    /\ [][(job_store.exists /\ job_store'.exists) =>
            /\ job_store'.row >= job_store.row
            /\ job_store'.processing_row >= job_store.processing_row]_vars

\* ------------------------------------------------------------------------
\* Claims about the score of invalid and risky outcomes
\* ------------------------------------------------------------------------

\* C36: every outcome of check_email with status invalid has score 0,
\* whatever code the RCPT probe returned.
C36_InvalidScoresZero ==
    (ppc = "done" /\ verdict[1] = "invalid") => verdict[3] = 0

\* C37: every outcome of check_email with status risky has a score below
\* 100 and at least one risk factor, whatever failure the probe reported.
C37_RiskyHasRiskFactor ==
    (ppc = "done" /\ verdict[1] = "risky")
        => (verdict[3] < 100 /\ Len(verdict[4]) >= 1)

\* ------------------------------------------------------------------------
\* Claims about the admission count
\* ------------------------------------------------------------------------

\* C38: a job whose durable status is terminal (completed, cancelled or
\* failed) is not counted by get_running_jobs_count: the count never
\* exceeds the number of jobs whose durable status is running.
C38_TerminalNotCounted ==
    get_running_jobs_count
        <= Cardinality({j \in JobIds : dbStatus[j] = "running"})

\* C39: under any interleaving of submissions, the number of jobs whose
\* status is running never exceeds MAX_CONCURRENT_JOBS.
C39_RunningWithinLimit ==
    Cardinality({j \in JobIds : dbStatus[j] = "running"}) <= MAX_CONCURRENT_JOBS

\* ------------------------------------------------------------------------
\* Claims about the persisted results of a completed job
\* ------------------------------------------------------------------------

\* C40: whenever a job's durable status is completed, the store holds
\* exactly one result per row of the job, with row_index 0..total_rows-1
\* in input order; and a job whose status is cancelled never gets the
\* status completed.
C40_CompletedHasAllResults ==
    /\ [](\A j \in JobIds :
            dbStatus[j] = "completed"
                => job_results[j] = [k \in 1..total[j] |-> k - 1])
    /\ [][\A j \in JobIds :
            dbStatus[j] = "cancelled" => dbStatus'[j] # "completed"]_vars

\* C40 witness: a job of MaxRows rows is completed with all its results
\* stored.
C40_Witness ==
    \E j \in JobIds :
        /\ dbStatus[j] = "completed"
        /\ total[j] = MaxRows
        /\ Len(job_results[j]) = MaxRows

====
